---------------------------- MODULE Spec2Model ----------------------------
(***************************************************************************)
(* larnd-sim: the self-triggering digitizer (larndsim/fee.py,              *)
(* get_adc_values) and the signal reducer (larndsim/detsim.py,             *)
(* sum_pixel_signals, get_track_pixel_map), with the induced-current       *)
(* kernel (tracks_current, z_interval, get_closest_waveform), the time     *)
(* windows (time_intervals), the ADC conversion (fee.py, digitize) and the *)
(* packet export (fee.py, export_to_hdf5).                                 *)
(*                                                                         *)
(* Units.  Times are in nanoseconds, charges in electron charges           *)
(* (physics.E_CHARGE = 1), currents in electrons per nanosecond, so that   *)
(* every quantity of the kernels is an integer.  A normal variate of the   *)
(* per-pixel generator is an integer number of standard deviations.        *)
(***************************************************************************)
EXTENDS Integers, Sequences, FiniteSets, TLC

(***************************************************************************)
(* Program constants of fee.py.                                            *)
(***************************************************************************)
MAX_ADC_VALUES == 10
DISCRIMINATION_THRESHOLD == 7000
ADC_HOLD_DELAY == 15
ADC_BUSY_DELAY == 8
RESET_CYCLES == 1
\* 0.1 us
CLOCK_CYCLE == 100
RESET_NOISE_CHARGE == 900
UNCORRELATED_NOISE_CHARGE == 500
DISCRIMINATOR_NOISE == 650
\* detector.TIME_SAMPLING, read from the detector configuration: 0.1 us
TIME_SAMPLING == 100
\* the time_padding argument of get_adc_values, in the unit of time_ticks
time_padding == 10

(***************************************************************************)
(* Bounds of the model.                                                    *)
(***************************************************************************)
\* current_fractions.shape[2]: track slots per pixel seen by the digitizer
NSlots == 2
\* a normal variate is one of -ZMax, 0, ZMax standard deviations
ZMax == 4
\* the noise stream of a pixel repeats after NoisePeriod draws
NoisePeriod == 3
\* widest pulse of the input waveforms, in ticks
MaxWidth == 2
\* latest start of the first pulse, in ticks
MaxStart == 1
\* signals.shape[0]: tracks of a batch
NTracks == 3
\* pixel ids 1 .. NPixelIds; also pixels.shape[1]
NPixelIds == 2
\* track_pixel_map.shape[1]: track slots per unique pixel
MapWidth == 2
\* most threads of sum_pixel_signals that add anything
MaxWorkers == 4
\* the end points of a segment lie at 0 .. SegMax half pitches on each axis
SegMax == 1
\* decoded pixel indices -1 .. PixIdxMax on each axis
PixIdxMax == 1
\* response.shape[0] and response.shape[1]: bins of the response table
NBins == 2
\* response.shape[2]: time bins of the response table
NTimeBins == 2
\* tracks.shape[0] of time_intervals
NTimeTracks == 2
\* the largest integrated charge given to digitize is 20000 * ChargeSteps electrons
ChargeSteps == 12
\* adc_list.shape[0] of export_to_hdf5
NExportPixels == 2
\* adc_list.shape[1] of export_to_hdf5
NExportSlots == 2

VARIABLES
    \* ---- get_adc_values: arguments
    npix,               \* pixels_signals.shape[0]
    wave,               \* per pixel: the parameters of its waveform
    pixel_thresholds,
    rng_states,         \* per pixel: <<noise stream, draws made>>
    \* ---- get_adc_values: locals of the thread of pixel ip
    pc, ic, iadc, adc_busy, last_reset, q_sum,
    crossing_time_tick, integrate_end,
    \* ---- get_adc_values: outputs
    adc_list, adc_ticks_list, current_fractions,
    printed,            \* the capacity message was printed
    slots_used,         \* every sample-slot index the thread indexed with
    ticks_read,         \* every index time_ticks was read at
    \* ---- get_track_pixel_map and sum_pixel_signals: arguments
    pixels,             \* pixels[itrk][ipix]: pixel ids of each track, -1 padded
    nticks,             \* signals.shape[2]
    track_starts,       \* start time of each track
    \* ---- get_track_pixel_map: output, and the threads that have run
    track_pixel_map, map_done,
    \* ---- sum_pixel_signals: outputs, and the position of each thread
    pixels_signals, pixels_tracks_signals, sum_pc,
    \* ---- tracks_current: arguments of the thread (itrk, ipix, it)
    tracks,             \* tracks[itrk]: the segment
    pID_xy,             \* id2pixel(pixels[itrk][ipix]): <<pID_x, pID_y>>
    \* ---- tracks_current: locals, output, and the position of the thread
    z_res,              \* what z_interval returned
    track_signal,       \* signals[itrk][ipix][it]
    div_zero,           \* the source lines that divided by zero
    tc_pc,
    \* ---- get_closest_waveform: arguments, result, position
    lk_args,            \* <<x, y, t>>
    lk_value,           \* the value returned
    response_reads,     \* every index the response table was read at
    lk_pc,
    \* ---- time_intervals: configuration, argument, outputs, positions
    TIME_PADDING,       \* detector.TIME_PADDING
    track_times,        \* tracks[itrk]["t_start"], tracks[itrk]["t_end"]
    time_max,           \* time_max[0]
    ticks_passed,       \* per thread: the value it passed to cuda.atomic.max
    ti_pc,
    \* ---- one x-y sample of tracks_current in the two implementations
    xy_dist,            \* <<x_dist, y_dist>>
    kernel_current,     \* detsim: what the sample added to total_current
    batched_current,    \* detsim_ep: the sample's term of the sum
    \* ---- digitize: argument and result
    integral_list, adcs,
    \* ---- export_to_hdf5: arguments, loop position, lists, dataset
    export_in,          \* adc_list, event ids, start times, configuration
    ex_pc, ex_itick, ex_iadc,
    last_event,
    packets, packets_mc, packets_frac,
    packets_mc_ds

feeVars == <<npix, wave, pixel_thresholds, rng_states, pc, ic, iadc, adc_busy,
             last_reset, q_sum, crossing_time_tick, integrate_end, adc_list,
             adc_ticks_list, current_fractions, printed, slots_used, ticks_read>>

sumVars == <<pixels, nticks, track_starts, track_pixel_map, map_done,
             pixels_signals, pixels_tracks_signals, sum_pc>>

geoVars == <<tracks, pID_xy, z_res, track_signal, div_zero, tc_pc,
             lk_args, lk_value, response_reads, lk_pc>>

timeVars == <<TIME_PADDING, track_times, time_max, ticks_passed, ti_pc>>

xyVars == <<xy_dist, kernel_current, batched_current>>

adcVars == <<integral_list, adcs>>

exportVars == <<export_in, ex_pc, ex_itick, ex_iadc, last_event,
                packets, packets_mc, packets_frac, packets_mc_ds>>

\* the kernels and functions around the digitizer, the reducer and the
\* induced-current kernel
hostVars == <<timeVars, xyVars, adcVars, exportVars>>

vars == <<feeVars, sumVars, geoVars, hostVars>>

(***************************************************************************)
(* Arithmetic helpers.                                                     *)
(***************************************************************************)
\* Python's round(n / d) for d > 0: to the nearest integer, ties to even.
Round(n, d) ==
    LET fl == n \div d
        r2 == 2 * (n - fl * d)
    IN  IF r2 < d THEN fl
        ELSE IF r2 > d THEN fl + 1
        ELSE IF fl % 2 = 0 THEN fl ELSE fl + 1

RECURSIVE SumTo(_, _)
\* f[0] + ... + f[n-1]
SumTo(f, n) == IF n = 0 THEN 0 ELSE f[n - 1] + SumTo(f, n - 1)

(***************************************************************************)
(* Input waveforms: a train of `count` rectangular pulses of `width` ticks *)
(* and amplitude `amp`, pulse k starting at tick start + k * gap; with     *)
(* `neg` the odd pulses are negative (bipolar induction); with split "alt" *)
(* pulse k comes from track slot k % NSlots, else all from slot 0.         *)
(***************************************************************************)
PulsesAt(w, i) ==
    {k \in 0..(w.count - 1) :
        /\ w.start + k * w.gap <= i
        /\ i < w.start + k * w.gap + w.width}

PulseAmp(w, k) == IF w.neg /\ k % 2 = 1 THEN -w.amp ELSE w.amp

PulseSlot(w, k) == IF w.split = "alt" THEN k % NSlots ELSE 0

RECURSIVE SumAmp(_, _)
SumAmp(w, ks) ==
    IF ks = {} THEN 0
    ELSE LET k == CHOOSE x \in ks : TRUE
         IN  PulseAmp(w, k) + SumAmp(w, ks \ {k})

\* pixels_signals[ip][i], for 0 <= i < shape[1]
Curre(ip, i) == SumAmp(wave[ip], PulsesAt(wave[ip], i))

\* pixels_signals_tracks[ip][i][itrk]
TrackCurre(ip, i, itrk) ==
    SumAmp(wave[ip], {k \in PulsesAt(wave[ip], i) : PulseSlot(wave[ip], k) = itrk})

\* curre.shape[0]
WaveLen(ip) == wave[ip].len

(***************************************************************************)
(* The per-pixel generator: xoroshiro128p_normal_float32(rng_states, ip)   *)
(* returns the next variate of the pixel's stream and advances its state.  *)
(***************************************************************************)
Normal(st, k) == st.pat[((st.n + k) % Len(st.pat)) + 1]

Advance(st, k) == [st EXCEPT !.n = @ + k]

(***************************************************************************)
(* Delays in ticks (fee.py lines 319, 347, 367, 369).                      *)
(***************************************************************************)
\* the hold window without the hold delay
HoldIntervalNoDelay == Round(3 * CLOCK_CYCLE, TIME_SAMPLING)

HoldInterval == Round(3 * CLOCK_CYCLE + ADC_HOLD_DELAY * CLOCK_CYCLE, TIME_SAMPLING)
\* a false trigger followed by a reset delay
FalseTriggerAndResetTicks == Round(CLOCK_CYCLE + RESET_CYCLES * CLOCK_CYCLE, TIME_SAMPLING)

FalseTriggerTicks == Round(CLOCK_CYCLE, TIME_SAMPLING)
ResetTicks == Round(RESET_CYCLES * CLOCK_CYCLE, TIME_SAMPLING)
BusyTicks == Round(ADC_BUSY_DELAY * CLOCK_CYCLE, TIME_SAMPLING)

(***************************************************************************)
(* Per-track shares.  An entry of current_fractions is the rational        *)
(* num / den; den = 0 stands for the NaN or infinity a float division by   *)
(* zero leaves.  An accumulated (not yet normalised) charge has den = 1.   *)
(***************************************************************************)
Charge(q) == [num |-> q, den |-> 1]

AddCharge(f, q) == [num |-> f.num + q * f.den, den |-> f.den]

\* current_fractions[ip][iadc][itrk] /= tot_backtracked
DivideBy(f, tot) == [num |-> f.num, den |-> f.den * tot]

ZeroRow == [itrk \in 0..(NSlots - 1) |-> Charge(0)]

\* tot_backtracked of a row of accumulated charges (lines 355-357)
TotBacktracked(row) == SumTo([itrk \in 0..(NSlots - 1) |-> row[itrk].num], NSlots)

\* lines 359-360
Normalise(row) ==
    [itrk \in 0..(NSlots - 1) |-> DivideBy(row[itrk], TotBacktracked(row))]

\* lines 305-306 and 337-338: the tick's per-track charge is added to a row
Accumulate(row, ip, i) ==
    [itrk \in 0..(NSlots - 1) |->
        AddCharge(row[itrk], TrackCurre(ip, i, itrk) * TIME_SAMPLING)]

(***************************************************************************)
(* The conditions of the loop.                                             *)
(***************************************************************************)
\* the loop stops at the end of the waveform, busy or not
LoopCondNoBusy(ip) == ic[ip] < WaveLen(ip)

\* line 287
LoopCond(ip) == ic[ip] < WaveLen(ip) \/ adc_busy[ip] > 0

\* the capacity test off by one
CapacityReachedLate(n) == n > MAX_ADC_VALUES

\* line 289
CapacityReached(n) == n >= MAX_ADC_VALUES

\* lines 313-314
BusyAfter(b) == IF b > 0 THEN b - 1 ELSE b

\* the discriminator fires only above the threshold
CrossesStrict(qs, q_noise, thr, disc_noise, busy) ==
    qs + q_noise > thr + disc_noise /\ busy = 0

\* line 316
Crosses(qs, q_noise, thr, disc_noise, busy) ==
    qs + q_noise >= thr + disc_noise /\ busy = 0

\* the hold loop stops one tick early
HoldCondShort(ip) == ic[ip] < integrate_end[ip] /\ ic[ip] < WaveLen(ip)

\* line 324
HoldCond(ip) == ic[ip] <= integrate_end[ip] /\ ic[ip] < WaveLen(ip)

\* line 346
BelowThreshold(adc, thr, disc_noise) == adc < thr + disc_noise

\* lines 293-308: the charge of tick i, 0 past the end of the waveform
TickCharge(ip, i) == IF i < WaveLen(ip) THEN Curre(ip, i) * TIME_SAMPLING ELSE 0

\* time_ticks[i]: the caller's list holds tick i at index i
time_ticks(i) == i

\* what a read of time_ticks[i] can return: past the end of the list the
\* thread reads whatever lies behind it
GarbageTicks == {-1, 0}
TickReads(ip, i) == IF i < WaveLen(ip) THEN {time_ticks(i)} ELSE GarbageTicks

(***************************************************************************)
(* Array accesses.  The kernels are compiled without bounds checks: a      *)
(* write at an index outside an array does not change the array, a read    *)
(* outside it returns memory that is not the array's.                      *)
(***************************************************************************)
\* the store lands one slot further on
SetAtNext(arr, k, v) == IF k + 1 \in DOMAIN arr THEN [arr EXCEPT ![k + 1] = v] ELSE arr

SetAt(arr, k, v) == IF k \in DOMAIN arr THEN [arr EXCEPT ![k] = v] ELSE arr

RowAt(arr, k) == IF k \in DOMAIN arr THEN arr[k] ELSE ZeroRow

Pixels == 0..(npix - 1)

(***************************************************************************)
(* get_adc_values, the thread of pixel ip.                                 *)
(***************************************************************************)
\* lines 279-285
StartPixel(ip) ==
    /\ pc[ip] = "start"
    /\ ic' = [ic EXCEPT ![ip] = 0]
    /\ iadc' = [iadc EXCEPT ![ip] = 0]
    /\ adc_busy' = [adc_busy EXCEPT ![ip] = 0]
    /\ last_reset' = [last_reset EXCEPT ![ip] = 0]
    /\ q_sum' = [q_sum EXCEPT ![ip] = Normal(rng_states[ip], 0) * RESET_NOISE_CHARGE]
    /\ rng_states' = [rng_states EXCEPT ![ip] = Advance(@, 1)]
    /\ pc' = [pc EXCEPT ![ip] = "loop"]
    /\ UNCHANGED <<npix, wave, pixel_thresholds, crossing_time_tick, integrate_end,
                   adc_list, adc_ticks_list, current_fractions, printed,
                   slots_used, ticks_read>>

\* line 287, condition false: the kernel returns
LoopExit(ip) ==
    /\ pc[ip] = "loop"
    /\ ~LoopCond(ip)
    /\ pc' = [pc EXCEPT ![ip] = "done"]
    /\ UNCHANGED <<npix, wave, pixel_thresholds, rng_states, ic, iadc, adc_busy,
                   last_reset, q_sum, crossing_time_tick, integrate_end, adc_list,
                   adc_ticks_list, current_fractions, printed, slots_used, ticks_read>>

\* lines 289-291: print and break; the kernel returns
CapacityBreak(ip) ==
    /\ pc[ip] = "loop"
    /\ LoopCond(ip)
    /\ CapacityReached(iadc[ip])
    /\ printed' = [printed EXCEPT ![ip] = TRUE]
    /\ pc' = [pc EXCEPT ![ip] = "done"]
    /\ UNCHANGED <<npix, wave, pixel_thresholds, rng_states, ic, iadc, adc_busy,
                   last_reset, q_sum, crossing_time_tick, integrate_end, adc_list,
                   adc_ticks_list, current_fractions, slots_used, ticks_read>>

\* lines 293-314: what one pass of the loop body does before the test of line 316
ScanQSum(ip) == q_sum[ip] + TickCharge(ip, ic[ip])
ScanQNoise(ip) == Normal(rng_states[ip], 0) * UNCORRELATED_NOISE_CHARGE
ScanDiscNoise(ip) == Normal(rng_states[ip], 1) * DISCRIMINATOR_NOISE
ScanCrosses(ip) ==
    Crosses(ScanQSum(ip), ScanQNoise(ip), pixel_thresholds[ip], ScanDiscNoise(ip),
            BusyAfter(adc_busy[ip]))

ScanBody(ip) ==
    /\ pc[ip] = "loop"
    /\ LoopCond(ip)
    /\ ~CapacityReached(iadc[ip])
    /\ q_sum' = [q_sum EXCEPT ![ip] = ScanQSum(ip)]
    /\ IF ic[ip] < WaveLen(ip)
       THEN /\ current_fractions' = [current_fractions EXCEPT ![ip] =
                   SetAt(@, iadc[ip], Accumulate(RowAt(@, iadc[ip]), ip, ic[ip]))]
            /\ slots_used' = [slots_used EXCEPT ![ip] = @ \cup {iadc[ip]}]
       ELSE UNCHANGED <<current_fractions, slots_used>>
    /\ rng_states' = [rng_states EXCEPT ![ip] = Advance(@, 2)]
    /\ adc_busy' = [adc_busy EXCEPT ![ip] = BusyAfter(@)]
    /\ ic' = [ic EXCEPT ![ip] = @ + 1]
    /\ UNCHANGED <<npix, wave, pixel_thresholds, iadc, last_reset, adc_list,
                   adc_ticks_list, printed, ticks_read>>

\* line 316 false, line 376
ScanAdvance(ip) ==
    /\ ScanBody(ip)
    /\ ~ScanCrosses(ip)
    /\ UNCHANGED <<pc, crossing_time_tick, integrate_end>>

\* line 316 true, lines 317-322
ScanCross(ip) ==
    /\ ScanBody(ip)
    /\ ScanCrosses(ip)
    /\ crossing_time_tick' = [crossing_time_tick EXCEPT ![ip] = ic[ip]]
    /\ integrate_end' = [integrate_end EXCEPT ![ip] = ic[ip] + HoldInterval]
    /\ pc' = [pc EXCEPT ![ip] = "hold"]

\* lines 324-341: one pass of the hold loop
HoldStep(ip) ==
    /\ pc[ip] = "hold"
    /\ HoldCond(ip)
    /\ q_sum' = [q_sum EXCEPT ![ip] = @ + Curre(ip, ic[ip]) * TIME_SAMPLING]
    /\ current_fractions' = [current_fractions EXCEPT ![ip] =
            SetAt(@, iadc[ip], Accumulate(RowAt(@, iadc[ip]), ip, ic[ip]))]
    /\ slots_used' = [slots_used EXCEPT ![ip] = @ \cup {iadc[ip]}]
    /\ ic' = [ic EXCEPT ![ip] = @ + 1]
    /\ UNCHANGED <<npix, wave, pixel_thresholds, rng_states, pc, iadc, adc_busy,
                   last_reset, crossing_time_tick, integrate_end, adc_list,
                   adc_ticks_list, printed, ticks_read>>

\* lines 343-344: the charge sampled at the end of the hold window
SampleAdc(ip) == q_sum[ip] + Normal(rng_states[ip], 0) * UNCORRELATED_NOISE_CHARGE
SampleDiscNoise(ip) == Normal(rng_states[ip], 1) * DISCRIMINATOR_NOISE
SampleBelow(ip) == BelowThreshold(SampleAdc(ip), pixel_thresholds[ip], SampleDiscNoise(ip))

\* lines 346-353: the sampled charge is below the threshold
FalseTrigger(ip) ==
    /\ pc[ip] = "hold"
    /\ ~HoldCond(ip)
    /\ SampleBelow(ip)
    /\ ic' = [ic EXCEPT ![ip] = @ + FalseTriggerTicks]
    /\ q_sum' = [q_sum EXCEPT ![ip] =
                    Normal(rng_states[ip], 2) * UNCORRELATED_NOISE_CHARGE]
    /\ rng_states' = [rng_states EXCEPT ![ip] = Advance(@, 3)]
    /\ current_fractions' = [current_fractions EXCEPT ![ip] = SetAt(@, iadc[ip], ZeroRow)]
    /\ slots_used' = [slots_used EXCEPT ![ip] = @ \cup {iadc[ip]}]
    /\ last_reset' = [last_reset EXCEPT ![ip] = ic[ip] + FalseTriggerTicks]
    /\ pc' = [pc EXCEPT ![ip] = "loop"]
    /\ UNCHANGED <<npix, wave, pixel_thresholds, iadc, adc_busy, crossing_time_tick,
                   integrate_end, adc_list, adc_ticks_list, printed, ticks_read>>

\* lines 355-374: the sample is stored
Emit(ip) ==
    /\ pc[ip] = "hold"
    /\ ~HoldCond(ip)
    /\ ~SampleBelow(ip)
    /\ current_fractions' = [current_fractions EXCEPT ![ip] =
            SetAt(@, iadc[ip], Normalise(RowAt(@, iadc[ip])))]
    /\ adc_list' = [adc_list EXCEPT ![ip] = SetAt(@, iadc[ip], SampleAdc(ip))]
    /\ \E t \in TickReads(ip, crossing_time_tick[ip]) :
          adc_ticks_list' = [adc_ticks_list EXCEPT ![ip] =
                                SetAt(@, iadc[ip], t + time_padding + 2)]
    /\ ticks_read' = [ticks_read EXCEPT ![ip] = @ \cup {crossing_time_tick[ip]}]
    /\ slots_used' = [slots_used EXCEPT ![ip] = @ \cup {iadc[ip]}]
    /\ ic' = [ic EXCEPT ![ip] = @ + ResetTicks]
    /\ last_reset' = [last_reset EXCEPT ![ip] = ic[ip] + ResetTicks]
    /\ adc_busy' = [adc_busy EXCEPT ![ip] = BusyTicks]
    /\ q_sum' = [q_sum EXCEPT ![ip] = Normal(rng_states[ip], 2) * RESET_NOISE_CHARGE]
    /\ rng_states' = [rng_states EXCEPT ![ip] = Advance(@, 3)]
    /\ iadc' = [iadc EXCEPT ![ip] = @ + 1]
    /\ pc' = [pc EXCEPT ![ip] = "loop"]
    /\ UNCHANGED <<npix, wave, pixel_thresholds, crossing_time_tick, integrate_end,
                   printed>>

\* a step of one of the digitizer's threads
NextFee ==
    \/ (\E ip \in Pixels : StartPixel(ip) /\ UNCHANGED <<sumVars, geoVars, hostVars>>)
    \/ (\E ip \in Pixels : LoopExit(ip) /\ UNCHANGED <<sumVars, geoVars, hostVars>>)
    \/ (\E ip \in Pixels : CapacityBreak(ip) /\ UNCHANGED <<sumVars, geoVars, hostVars>>)
    \/ (\E ip \in Pixels : ScanAdvance(ip) /\ UNCHANGED <<sumVars, geoVars, hostVars>>)
    \/ (\E ip \in Pixels : ScanCross(ip) /\ UNCHANGED <<sumVars, geoVars, hostVars>>)
    \/ (\E ip \in Pixels : HoldStep(ip) /\ UNCHANGED <<sumVars, geoVars, hostVars>>)
    \/ (\E ip \in Pixels : FalseTrigger(ip) /\ UNCHANGED <<sumVars, geoVars, hostVars>>)
    \/ (\E ip \in Pixels : Emit(ip) /\ UNCHANGED <<sumVars, geoVars, hostVars>>)

(***************************************************************************)
(* The reducer's arguments.                                                *)
(***************************************************************************)
Tracks == DOMAIN pixels
PixCols == 0..(NPixelIds - 1)

\* the pixel ids of the batch, without the padding value -1
PixelIds == {pixels[itrk][ipix] : itrk \in Tracks, ipix \in PixCols} \ {-1}

\* the position of a pixel id in the sorted array of unique pixels, -1 if none
PixelIndex(pID) ==
    IF pID \in PixelIds THEN Cardinality({j \in PixelIds : j < pID}) ELSE -1

UniqueIndexes == 0..(Cardinality(PixelIds) - 1)

\* unique_pix[index]
unique_pix(index) == CHOOSE pID \in PixelIds : PixelIndex(pID) = index

\* pixel_index_map[itrk][ipix]
pixel_index_map(itrk, ipix) == PixelIndex(pixels[itrk][ipix])

\* signals[itrk][ipix][itick]: one bit per entry, so that a sum shows its terms
RECURSIVE Pow2(_)
Pow2(n) == IF n = 0 THEN 1 ELSE 2 * Pow2(n - 1)
signals(itrk, ipix, itick) == Pow2(itrk + NTracks * (ipix + NPixelIds * itick))

(***************************************************************************)
(* get_track_pixel_map, the thread of unique pixel `index` (lines 444-460). *)
(***************************************************************************)
RECURSIVE FreeSlot(_, _, _)
\* lines 455-457: the first slot from imap on that is -1 or holds itrk
FreeSlot(row, itrk, imap) ==
    IF imap < MapWidth /\ row[imap] # -1 /\ row[imap] # itrk
    THEN FreeSlot(row, itrk, imap + 1)
    ELSE imap

\* a full row gives its last slot to the later track
MapEntryOverwrite(row, upix, itrk, ipix) ==
    IF upix = pixels[itrk][ipix]
    THEN LET imap == FreeSlot(row, itrk, 0)
         IN  IF imap < MapWidth THEN [row EXCEPT ![imap] = itrk]
             ELSE [row EXCEPT ![MapWidth - 1] = itrk]
    ELSE row

\* lines 453-460
MapEntry(row, upix, itrk, ipix) ==
    IF upix = pixels[itrk][ipix]
    THEN LET imap == FreeSlot(row, itrk, 0)
         IN  IF imap < MapWidth THEN [row EXCEPT ![imap] = itrk] ELSE row
    ELSE row

RECURSIVE MapLoop(_, _, _, _)
\* lines 448-450: the two loops, from (itrk, ipix) on
MapLoop(row, upix, itrk, ipix) ==
    IF itrk >= Cardinality(Tracks) THEN row
    ELSE IF ipix >= NPixelIds THEN MapLoop(row, upix, itrk + 1, 0)
    ELSE MapLoop(MapEntry(row, upix, itrk, ipix), upix, itrk, ipix + 1)

MapPixel(index) ==
    /\ index \notin map_done
    /\ track_pixel_map' = [track_pixel_map EXCEPT ![index] =
                              MapLoop(@, unique_pix(index), 0, 0)]
    /\ map_done' = map_done \cup {index}
    /\ UNCHANGED <<pixels, nticks, track_starts, pixels_signals,
                   pixels_tracks_signals, sum_pc>>

(***************************************************************************)
(* sum_pixel_signals, the thread (itrk, ipix, itick) (lines 409-428).      *)
(***************************************************************************)
SumThreads == Tracks \X PixCols \X (0..(nticks - 1))

\* line 414
StartTick(itrk) == Round(track_starts[itrk], TIME_SAMPLING)

RECURSIVE FindSlot(_, _, _)
\* lines 418-423: the first slot of the row that holds itrk
FindSlot(row, itrk, track_idx) ==
    IF track_idx >= MapWidth THEN -1
    ELSE IF itrk = row[track_idx] THEN track_idx
    ELSE FindSlot(row, itrk, track_idx + 1)

\* lines 417-423: counter stays 0 when no slot holds itrk
Counter(row, itrk) ==
    LET found == FindSlot(row, itrk, 0) IN IF found >= 0 THEN found ELSE 0

\* a plain store in place of the atomic add
AtomicStore(old, v) == v

\* cuda.atomic.add: the new value of the entry
AtomicAdd(old, v) == old + v

\* lines 411, 416, 425: the thread adds something
Adds(w) == pixel_index_map(w[1], w[2]) >= 0 /\ w[3] < nticks

\* the kernel is launched after get_track_pixel_map has finished
MapFinished == map_done = UniqueIndexes

\* the first add without the track's start tick
TotalEntryLocalTick(w) == <<pixel_index_map(w[1], w[2]), w[3]>>

\* line 427: the entry of pixels_signals the thread adds to
TotalEntry(w) == <<pixel_index_map(w[1], w[2]), StartTick(w[1]) + w[3]>>

\* the second add without the track's start tick
TrackEntryLocalTick(w) ==
    <<pixel_index_map(w[1], w[2]), w[3],
      Counter(track_pixel_map[pixel_index_map(w[1], w[2])], w[1])>>

\* line 428: the entry of pixels_tracks_signals the thread adds to
TrackEntry(w) ==
    <<pixel_index_map(w[1], w[2]), StartTick(w[1]) + w[3],
      Counter(track_pixel_map[pixel_index_map(w[1], w[2])], w[1])>>

\* line 427
SumAddTotal(w) ==
    /\ MapFinished
    /\ Adds(w)
    /\ sum_pc[w] = "ready"
    /\ LET e == TotalEntry(w)
       IN  pixels_signals' = [pixels_signals EXCEPT ![e[1]][e[2]] =
                                 AtomicAdd(@, signals(w[1], w[2], w[3]))]
    /\ sum_pc' = [sum_pc EXCEPT ![w] = "added"]
    /\ UNCHANGED <<pixels, nticks, track_starts, track_pixel_map, map_done,
                   pixels_tracks_signals>>

\* line 428
SumAddTrack(w) ==
    /\ Adds(w)
    /\ sum_pc[w] = "added"
    /\ LET e == TrackEntry(w)
       IN  pixels_tracks_signals' =
               [pixels_tracks_signals EXCEPT ![e[1]][e[2]][e[3]] =
                   AtomicAdd(@, signals(w[1], w[2], w[3]))]
    /\ sum_pc' = [sum_pc EXCEPT ![w] = "done"]
    /\ UNCHANGED <<pixels, nticks, track_starts, track_pixel_map, map_done,
                   pixels_signals>>

\* lines 411, 416, 425 false: the thread returns and has changed nothing
SumReturn(w) ==
    /\ MapFinished
    /\ ~Adds(w)
    /\ UNCHANGED sumVars

\* every thread of the grid, also those past signals.shape[2]
GridThreads == Tracks \X PixCols \X (0..nticks)

NextSum ==
    \/ \E index \in UniqueIndexes : MapPixel(index) /\ UNCHANGED <<feeVars, geoVars, hostVars>>
    \/ \E w \in SumThreads : SumAddTotal(w) /\ UNCHANGED <<feeVars, geoVars, hostVars>>
    \/ \E w \in SumThreads : SumAddTrack(w) /\ UNCHANGED <<feeVars, geoVars, hostVars>>
    \/ \E w \in GridThreads : SumReturn(w) /\ UNCHANGED <<feeVars, geoVars, hostVars>>

(***************************************************************************)
(* Geometry (larndsim/detsim.py).  Lengths are integers in a unit of which *)
(* the pixel pitch holds PIXEL_PITCH; a quantity the code computes with a  *)
(* division is the exact rational [num, den], den > 0, and a quantity it   *)
(* computes with a square root is kept as its square.  Floating-point      *)
(* rounding is not modelled.                                               *)
(***************************************************************************)
\* detector.PIXEL_PITCH, read from the detector configuration
PIXEL_PITCH == 20
\* detector.RESPONSE_SAMPLING, in the unit of the lookup's t
RESPONSE_SAMPLING == 2

Rat(n, d) == IF d < 0 THEN [num |-> -n, den |-> -d] ELSE [num |-> n, den |-> d]
RatLess(a, b) == a.num * b.den < b.num * a.den
RatIsZero(a) == a.num = 0
Max(a, b) == IF a > b THEN a ELSE b
Sq(a) == a * a

\* z_interval's result (z_poca, z_start, z_end) is kept as z_poca and the
\* square of the half width: z_start = z_poca - sqrt(half2), z_end = z_poca +
\* sqrt(half2) (lines 103-111).  The no-overlap result is (0, 0, 0).
ZResult(z_poca, half2) == [z_poca |-> z_poca, half2 |-> half2]
NoOverlap == ZResult(Rat(0, 1), Rat(0, 1))

\* the tolerance test with the boundary inside
WithinToleranceInclusive(tol2, doca2) == ~RatLess(Rat(tol2, 1), doca2)

\* line 98: tolerance > doca, on the squares
WithinTolerance(tol2, doca2) == RatLess(doca2, Rat(tol2, 1))

\* lines 63-113; tol2 is the square of the tolerance
z_interval(start_point, end_point, x_p, y_p, tol2) ==
    IF start_point[1] = end_point[1] THEN NoOverlap
    ELSE
    LET start == IF start_point[1] > end_point[1] THEN end_point ELSE start_point
        end   == IF start_point[1] > end_point[1] THEN start_point ELSE end_point
        xs == start[1]  ys == start[2]
        xe == end[1]    ye == end[2]
        dx == xe - xs   dy == ye - ys   dz == end[3] - start[3]
        \* m = dy / dx, q = cross / dx
        cross == xe * ys - xs * ye
        \* line 80, numerator and denominator multiplied by dx * dx
        x_line == Rat(dx * dx * x_p + dx * dy * y_p - dy * cross, dy * dy + dx * dx)
        before == RatLess(x_line, Rat(xs, 1))
        after  == RatLess(Rat(xe, 1), x_line)
        \* lines 85-92
        doca2 == IF before THEN Rat(Sq(x_p - xs) + Sq(y_p - ys), 1)
                 ELSE IF after THEN Rat(Sq(x_p - xe) + Sq(y_p - ye), 1)
                 ELSE Rat(Sq(dy * x_p - dx * y_p + cross), dy * dy + dx * dx)
        x_poca == IF before THEN Rat(xs, 1) ELSE IF after THEN Rat(xe, 1) ELSE x_line
        \* line 94: dir3D[2] / dir3D[0] = dz / dx
        z_poca == Rat(start[3] * x_poca.den * dx + (x_poca.num - xs * x_poca.den) * dz,
                      x_poca.den * dx)
        \* lines 99-109: (deltaL2D * dir2D[0] / dir3D[0] * dir3D[2]) squared
        half2 == Rat((tol2 * doca2.den - doca2.num) * dz * dz,
                     doca2.den * (dx * dx + dy * dy))
    IN  IF WithinTolerance(tol2, doca2) THEN ZResult(z_poca, half2) ELSE NoOverlap

(***************************************************************************)
(* tracks_current, the thread (itrk, ipix, it) (lines 287-373).            *)
(***************************************************************************)
\* lines 297-299, with the border of the plane at the origin
PixelCentre(i) == i * PIXEL_PITCH + PIXEL_PITCH \div 2

\* lines 301-306: the end with the lower z first
TrackStart(trk) ==
    IF trk.z_start < trk.z_end THEN <<trk.x_start, trk.y_start, trk.z_start>>
    ELSE <<trk.x_end, trk.y_end, trk.z_end>>
TrackEnd(trk) ==
    IF trk.z_start < trk.z_end THEN <<trk.x_end, trk.y_end, trk.z_end>>
    ELSE <<trk.x_start, trk.y_start, trk.z_start>>

\* line 308
Segment(trk) == [a \in 1..3 |-> TrackEnd(trk)[a] - TrackStart(trk)[a]]
\* line 309, squared
Length2(trk) == Sq(Segment(trk)[1]) + Sq(Segment(trk)[2]) + Sq(Segment(trk)[3])

\* lines 316-317, squared:
\* (max(sqrt((5 s)^2 + (5 s)^2), sqrt(PITCH^2 + PITCH^2) / 2) * 2)^2
ImpactFactor2(trk) ==
    4 * Max(Sq(5 * trk.tran_diff) + Sq(5 * trk.tran_diff),
            (Sq(PIXEL_PITCH) + Sq(PIXEL_PITCH)) \div 4)

\* line 294
ValidPixel == pID_xy[1] >= 0 /\ pID_xy[2] >= 0

\* lines 289-299: a thread of a padding entry returns
TCEnter ==
    /\ tc_pc = "start"
    /\ tc_pc' = IF ValidPixel THEN "orient" ELSE "done"
    /\ UNCHANGED <<tracks, pID_xy, z_res, track_signal, div_zero,
                   lk_args, lk_value, response_reads, lk_pc>>

\* lines 301-317: line 311 divides the segment by its length
TCOrient ==
    /\ tc_pc = "orient"
    /\ div_zero' = IF Length2(tracks) = 0 THEN div_zero \cup {311} ELSE div_zero
    /\ tc_pc' = "interval"
    /\ UNCHANGED <<tracks, pID_xy, z_res, track_signal,
                   lk_args, lk_value, response_reads, lk_pc>>

\* line 319
TCInterval ==
    /\ tc_pc = "interval"
    /\ z_res' = z_interval(TrackStart(tracks), TrackEnd(tracks),
                           PixelCentre(pID_xy[1]), PixelCentre(pID_xy[2]),
                           ImpactFactor2(tracks))
    /\ tc_pc' = "test"
    /\ UNCHANGED <<tracks, pID_xy, track_signal, div_zero,
                   lk_args, lk_value, response_reads, lk_pc>>

\* line 321
Overlapping(res) == ~RatIsZero(res.z_poca)

\* lines 323-373.  track_point (line 226) divides by direction[2].  The sum
\* over the sampled points is a floating-point integral: the thread leaves
\* signals[itrk][ipix][it] alone (no sample passes the tests of lines 347,
\* 357, 365), or stores a sum that is zero, finite, or not a number when a
\* division by zero fed it.
TCIntegrate ==
    /\ tc_pc = "test"
    /\ Overlapping(z_res)
    /\ div_zero' = IF Segment(tracks)[3] = 0 THEN div_zero \cup {226} ELSE div_zero
    /\ \/ track_signal' \in {"zero", "finite"}
       \/ div_zero' # {} /\ track_signal' = "nan"
    /\ tc_pc' = "done"
    /\ UNCHANGED <<tracks, pID_xy, z_res, lk_args, lk_value, response_reads, lk_pc>>

\* line 321 false: nothing is stored
TCSkip ==
    /\ tc_pc = "test"
    /\ ~Overlapping(z_res)
    /\ tc_pc' = "done"
    /\ UNCHANGED <<tracks, pID_xy, z_res, track_signal, div_zero,
                   lk_args, lk_value, response_reads, lk_pc>>

(***************************************************************************)
(* get_closest_waveform (lines 246-270).                                   *)
(***************************************************************************)
\* line 261: detector.PIXEL_PITCH * consts.MM2CM
bin_width == PIXEL_PITCH \div 10

\* response.shape
ResponseShape == <<NBins, NBins, NTimeBins>>

\* response[i][j][k]: every entry differs from the others and from 0
response(i, j, k) == 1 + i + NBins * (j + NBins * k)

\* lines 263-264: round((x / bin_width) - 0.5)
BinIndex(x) == Round(2 * x - bin_width, 2 * bin_width)
\* line 265
TimeIndex(t) == Round(t, RESPONSE_SAMPLING)

\* the upper limits tested with <=
InTableInclusive(i, j, k) ==
    /\ 0 <= i /\ i <= ResponseShape[1]
    /\ 0 <= j /\ j <= ResponseShape[2]
    /\ 0 <= k /\ k <= ResponseShape[3]

\* line 267
InTable(i, j, k) ==
    /\ 0 <= i /\ i < ResponseShape[1]
    /\ 0 <= j /\ j < ResponseShape[2]
    /\ 0 <= k /\ k < ResponseShape[3]

\* an index the table has an entry for
Tabulated(i, j, k) ==
    /\ i \in 0..(ResponseShape[1] - 1)
    /\ j \in 0..(ResponseShape[2] - 1)
    /\ k \in 0..(ResponseShape[3] - 1)

\* what a read of response[i][j][k] can return: outside the table the read
\* returns whatever lies there
ResponseReads(i, j, k) == IF Tabulated(i, j, k) THEN {response(i, j, k)} ELSE {-1, 0}

GetClosestWaveform ==
    /\ lk_pc = "call"
    /\ LET i == BinIndex(lk_args[1])
           j == BinIndex(lk_args[2])
           k == TimeIndex(lk_args[3])
       IN  IF InTable(i, j, k)
           THEN /\ lk_value' \in ResponseReads(i, j, k)
                /\ response_reads' = response_reads \cup {<<i, j, k>>}
           ELSE /\ lk_value' = 0
                /\ UNCHANGED response_reads
    /\ lk_pc' = "done"
    /\ UNCHANGED <<tracks, pID_xy, z_res, track_signal, div_zero, tc_pc, lk_args>>

NextCurrent ==
    \/ TCEnter /\ UNCHANGED <<feeVars, sumVars, hostVars>>
    \/ TCOrient /\ UNCHANGED <<feeVars, sumVars, hostVars>>
    \/ TCInterval /\ UNCHANGED <<feeVars, sumVars, hostVars>>
    \/ TCIntegrate /\ UNCHANGED <<feeVars, sumVars, hostVars>>
    \/ TCSkip /\ UNCHANGED <<feeVars, sumVars, hostVars>>

NextLookup == GetClosestWaveform /\ UNCHANGED <<feeVars, sumVars, hostVars>>

(***************************************************************************)
(* time_intervals (detsim.py lines 19-41).  Times are in nanoseconds.      *)
(***************************************************************************)
\* TIME_INTERVAL of consts.detector: the valid time interval
TIME_INTERVAL == <<0, 30 * TIME_SAMPLING>>

\* line 37: the 1 (microsecond) added to t_end
END_MARGIN == 1000

Min(a, b) == IF a <= b THEN a ELSE b

\* math.ceil(n / d), d > 0
Ceil(n, d) == -((-n) \div d)

\* line 37: t_end
WindowEnd(trk) ==
    Min(TIME_INTERVAL[2], Round(trk.t_end + END_MARGIN, TIME_SAMPLING) * TIME_SAMPLING)

\* line 38: t_start
WindowStart(trk) ==
    Max(TIME_INTERVAL[1], Round(trk.t_start - TIME_PADDING, TIME_SAMPLING) * TIME_SAMPLING)

\* line 39
t_length(trk) == WindowEnd(trk) - WindowStart(trk)

\* tracks.shape[0]
TimeTracks == DOMAIN track_times

\* lines 33-35: a thread of the grid beyond the tracks does nothing
TIReturn(itrk) ==
    /\ itrk \in DOMAIN ti_pc /\ ti_pc[itrk] = "start"
    /\ itrk \notin TimeTracks
    /\ ti_pc' = [ti_pc EXCEPT ![itrk] = "done"]
    /\ UNCHANGED <<TIME_PADDING, track_times, time_max, ticks_passed, sumVars>>

\* lines 35-40
TIStore(itrk) ==
    /\ itrk \in DOMAIN ti_pc /\ ti_pc[itrk] = "start"
    /\ itrk \in TimeTracks
    /\ track_starts' = [track_starts EXCEPT ![itrk] = WindowStart(track_times[itrk])]
    /\ ti_pc' = [ti_pc EXCEPT ![itrk] = "max"]
    /\ UNCHANGED <<TIME_PADDING, track_times, time_max, ticks_passed>>
    /\ UNCHANGED <<pixels, nticks, track_pixel_map, map_done, pixels_signals,
                   pixels_tracks_signals, sum_pc>>

\* line 41
TIMax(itrk) ==
    /\ itrk \in DOMAIN ti_pc /\ ti_pc[itrk] = "max"
    /\ LET ticks == Ceil(t_length(track_times[itrk]), TIME_SAMPLING)
       IN  /\ ticks_passed' = [ticks_passed EXCEPT ![itrk] = ticks]
           /\ time_max' = Max(time_max, ticks)
    /\ ti_pc' = [ti_pc EXCEPT ![itrk] = "done"]
    /\ UNCHANGED <<TIME_PADDING, track_times, sumVars>>

NextTime ==
    \/ \E itrk \in DOMAIN ti_pc :
          TIReturn(itrk) /\ UNCHANGED <<feeVars, geoVars, xyVars, adcVars, exportVars>>
    \/ \E itrk \in DOMAIN ti_pc :
          TIStore(itrk) /\ UNCHANGED <<feeVars, geoVars, xyVars, adcVars, exportVars>>
    \/ \E itrk \in DOMAIN ti_pc :
          TIMax(itrk) /\ UNCHANGED <<feeVars, geoVars, xyVars, adcVars, exportVars>>

(***************************************************************************)
(* One x-y sample of the integration of tracks_current: the kernel         *)
(* (detsim.py lines 352-369) and the batched implementation                *)
(* (detsim_ep.py lines 346-358).  Distances are in the unit of PIXEL_PITCH.*)
(***************************************************************************)
\* detsim.py lines 357, 365: PIXEL_PITCH/2 + PIXEL_PITCH/4
KernelLimit == PIXEL_PITCH \div 2 + PIXEL_PITCH \div 4

\* detsim_ep.py lines 353-354: pixel_pitch/2
BatchedLimit == PIXEL_PITCH \div 2

\* detsim.py lines 357-358, 365-366: neither `continue` is taken
KernelAdmits(dist) == ~(dist[1] > KernelLimit) /\ ~(dist[2] > KernelLimit)

\* detsim_ep.py lines 353-354: neither ep.where replaces the term by 0
BatchedAdmits(dist) == ~(dist[1] > BatchedLimit) /\ ~(dist[2] > BatchedLimit)

\* detsim.py lines 354-369, one pass of the two loops
KernelSample ==
    /\ kernel_current = "none"
    /\ kernel_current' = IF KernelAdmits(xy_dist) THEN "added" ELSE "rejected"
    /\ UNCHANGED <<xy_dist, batched_current>>

\* detsim_ep.py lines 346-358, one term of the sum
BatchedSample ==
    /\ batched_current = "none"
    /\ batched_current' = IF BatchedAdmits(xy_dist) THEN "added" ELSE "rejected"
    /\ UNCHANGED <<xy_dist, kernel_current>>

NextSample ==
    \/ KernelSample /\ UNCHANGED <<feeVars, sumVars, geoVars, timeVars, adcVars, exportVars>>
    \/ BatchedSample /\ UNCHANGED <<feeVars, sumVars, geoVars, timeVars, adcVars, exportVars>>

(***************************************************************************)
(* digitize (fee.py lines 229-244).  Voltages are in mV, charges in        *)
(* electron charges.                                                       *)
(***************************************************************************)
\* line 35: 4/1e3 mV per electron
GAIN == Rat(4, 1000)
V_CM == 288
V_REF == 1300
V_PEDESTAL == 580
\* 2**8
ADC_COUNTS == 256

\* lines 242-243, for one entry of integral_list; xp.around rounds half to even
digitize(q) ==
    Min(Round(Max(q * GAIN.num + (V_PEDESTAL - V_CM) * GAIN.den, 0) * ADC_COUNTS,
              GAIN.den * (V_REF - V_CM)),
        ADC_COUNTS)

\* lines 242-244 on the whole array
Digitize ==
    /\ integral_list # <<>> /\ adcs = <<>>
    /\ adcs' = [i \in DOMAIN integral_list |-> digitize(integral_list[i])]
    /\ UNCHANGED integral_list

NextDigitize ==
    Digitize /\ UNCHANGED <<feeVars, sumVars, geoVars, timeVars, xyVars, exportVars>>

(***************************************************************************)
(* export_to_hdf5 (fee.py lines 86-226).  export_in holds the arguments    *)
(* and what the function derives from them before its loop: adc_list,      *)
(* the event of each pixel, event_start_time_list in units of 2**31 clock  *)
(* cycles, and per pixel what the look-ups of lines 167-192 find.          *)
(***************************************************************************)
\* lines 114, 149, 158, 161: [-1]*track_ids.shape[1]
NoTracks == [pixel |-> -1]
\* lines 115, 150, 159, 162: [0]*current_fractions.shape[2]
NoFraction == [pixel |-> -1, sample |-> -1]
\* line 200: track_ids[itick]
TrackRow(ipx) == [pixel |-> ipx]
\* line 201: current_fractions[itick][iadc]
FractionRow(ipx, isample) == [pixel |-> ipx, sample |-> isample]

ExportPixels == DOMAIN export_in.adc_list

\* adc_list.shape[1]
ExportWidth == IF ExportPixels = {} THEN 0 ELSE Len(export_in.adc_list[0])

\* the loops of lines 128 and 139 move on: to the next sample of the pixel
\* when `brk` is false, to the next pixel otherwise or after the last sample
ExportGoto(brk) ==
    IF ~brk /\ ex_iadc + 1 < ExportWidth
    THEN /\ ex_iadc' = ex_iadc + 1
         /\ UNCHANGED ex_itick
         /\ ex_pc' = "sample"
    ELSE /\ ex_iadc' = 0
         /\ ex_itick' = ex_itick + 1
         /\ ex_pc' = IF ex_itick + 1 \in ExportPixels THEN "sample" ELSE "write"

\* the adc of lines 139-142; adcs are indexed from 1 in the model
ExportAdc == export_in.adc_list[ex_itick][ex_iadc + 1]

\* lines 142, 203-204
ExportBreak ==
    /\ ex_pc = "sample"
    /\ ~(ExportAdc > digitize(0))
    /\ ExportGoto(TRUE)
    /\ UNCHANGED <<export_in, last_event, packets, packets_mc, packets_frac,
                   packets_mc_ds>>

\* lines 142-154: the 31-bit rollover
ExportTime ==
    /\ ex_pc = "sample"
    /\ ExportAdc > digitize(0)
    /\ IF export_in.event_start_time_list[ex_itick] > 0
       THEN /\ packets' = Append(packets, [kind |-> "timestamp"])
            /\ packets_mc' = Append(packets_mc, NoTracks)
            /\ packets_frac' = Append(packets_frac, NoFraction)
            /\ export_in' = [export_in EXCEPT !.event_start_time_list =
                   [ipx \in ExportPixels |-> IF ipx >= ex_itick THEN @[ipx] - 1 ELSE @[ipx]]]
       ELSE UNCHANGED <<export_in, packets, packets_mc, packets_frac>>
    /\ ex_pc' = "event"
    /\ UNCHANGED <<ex_itick, ex_iadc, last_event, packets_mc_ds>>

\* one truth row for the two trigger packets
TriggerTruthOnce(list, row) == list \o <<row>>

\* lines 158-159, 161-162: a truth row for each of the two trigger packets
TriggerTruth(list, row) == list \o <<row, row>>

\* lines 156-163
ExportTrigger ==
    /\ ex_pc = "event"
    /\ LET event == export_in.event_id_list[ex_itick]
       IN  IF event # last_event
           THEN /\ packets' = packets \o <<[kind |-> "trigger", io_group |-> 1],
                                           [kind |-> "trigger", io_group |-> 2]>>
                /\ packets_mc' = TriggerTruth(packets_mc, NoTracks)
                /\ packets_frac' = TriggerTruth(packets_frac, NoFraction)
                /\ last_event' = event
           ELSE UNCHANGED <<last_event, packets, packets_mc, packets_frac>>
    /\ ex_pc' = "packet"
    /\ UNCHANGED <<export_in, ex_itick, ex_iadc, packets_mc_ds>>

\* lines 165-173: PIXEL_CONNECTION_DICT has no entry for the pixel
ExportInvalidPixel ==
    /\ ex_pc = "packet"
    /\ export_in.lookup[ex_itick] = "invalid pixel"
    /\ ExportGoto(FALSE)
    /\ UNCHANGED <<export_in, last_event, packets, packets_mc, packets_frac,
                   packets_mc_ds>>

\* lines 175-182: TILE_CHIP_TO_IO has no entry for the chip
ExportMissingChip ==
    /\ ex_pc = "packet"
    /\ export_in.lookup[ex_itick] = "missing chip"
    /\ ExportGoto(FALSE)
    /\ UNCHANGED <<export_in, last_event, packets, packets_mc, packets_frac,
                   packets_mc_ds>>

\* lines 184-192: the channel is listed in bad_channels
ExportBadChannel ==
    /\ ex_pc = "packet"
    /\ export_in.lookup[ex_itick] = "bad channel"
    /\ ExportGoto(FALSE)
    /\ UNCHANGED <<export_in, last_event, packets, packets_mc, packets_frac,
                   packets_mc_ds>>

\* lines 165-202: the data packet
ExportData ==
    /\ ex_pc = "packet"
    /\ export_in.lookup[ex_itick] = "connected"
    /\ packets_mc' = Append(packets_mc, TrackRow(ex_itick))
    /\ packets_frac' = Append(packets_frac, FractionRow(ex_itick, ex_iadc))
    /\ packets' = Append(packets, [kind |-> "data", pixel |-> ex_itick,
                                   sample |-> ex_iadc, dataword |-> ExportAdc])
    /\ ExportGoto(FALSE)
    /\ UNCHANGED <<export_in, last_event, packets_mc_ds>>

\* lines 210-213: np.empty(len(packets)) filled from the two truth lists; the
\* assignments raise when a list has another length
ExportWrite ==
    /\ ex_pc = "write"
    /\ IF Len(packets_mc) = Len(packets) /\ Len(packets_frac) = Len(packets)
       THEN /\ packets_mc_ds' = [i \in 1..Len(packets) |->
                   [track_ids |-> packets_mc[i], fraction |-> packets_frac[i]]]
            /\ ex_pc' = "done"
       ELSE /\ UNCHANGED packets_mc_ds
            /\ ex_pc' = "raised"
    /\ UNCHANGED <<export_in, ex_itick, ex_iadc, last_event, packets, packets_mc,
                   packets_frac>>

NextExport ==
    \/ ExportBreak /\ UNCHANGED <<feeVars, sumVars, geoVars, timeVars, xyVars, adcVars>>
    \/ ExportTime /\ UNCHANGED <<feeVars, sumVars, geoVars, timeVars, xyVars, adcVars>>
    \/ ExportTrigger /\ UNCHANGED <<feeVars, sumVars, geoVars, timeVars, xyVars, adcVars>>
    \/ ExportInvalidPixel /\ UNCHANGED <<feeVars, sumVars, geoVars, timeVars, xyVars, adcVars>>
    \/ ExportMissingChip /\ UNCHANGED <<feeVars, sumVars, geoVars, timeVars, xyVars, adcVars>>
    \/ ExportBadChannel /\ UNCHANGED <<feeVars, sumVars, geoVars, timeVars, xyVars, adcVars>>
    \/ ExportData /\ UNCHANGED <<feeVars, sumVars, geoVars, timeVars, xyVars, adcVars>>
    \/ ExportWrite /\ UNCHANGED <<feeVars, sumVars, geoVars, timeVars, xyVars, adcVars>>

(***************************************************************************)
(* Inputs.                                                                 *)
(***************************************************************************)
Wave(start, width, amp, gap, count, neg, split, tail) ==
    [start |-> start, width |-> width, amp |-> amp, gap |-> gap, count |-> count,
     neg |-> neg, split |-> split,
     len |-> IF count = 0 THEN tail ELSE start + (count - 1) * gap + width + tail]

\* currents that fill half a default threshold, or a whole one, in one tick
Amps == {DISCRIMINATION_THRESHOLD \div (2 * TIME_SAMPLING),
         DISCRIMINATION_THRESHOLD \div TIME_SAMPLING}

Thresholds == {DISCRIMINATION_THRESHOLD, DISCRIMINATION_THRESHOLD \div 2}

\* ticks after the last pulse: none, or enough for a hold, a reset and a busy time
LongTail == HoldInterval + ResetTicks + BusyTicks + 3
Tails == {0, LongTail}

\* distances between the starts of two pulses
Gaps == {1, BusyTicks - 1, BusyTicks, HoldInterval + 1, HoldInterval + ResetTicks + 1,
         ADC_BUSY_DELAY + ADC_HOLD_DELAY + 1, HoldInterval + ResetTicks + BusyTicks}

\* the shortest distance at which every pulse of a train gives a sample
TrainGap == HoldInterval + ResetTicks + BusyTicks

SinglePulses ==
    {Wave(s, w, a, 1, 1, FALSE, "one", t) :
        s \in 0..MaxStart, w \in 1..(HoldInterval + ResetTicks + MaxWidth),
        a \in Amps, t \in Tails}

DoublePulses ==
    {Wave(s, w, a, g, 2, n, sp, t) :
        s \in 0..MaxStart, w \in 1..MaxWidth, a \in Amps, g \in Gaps,
        n \in BOOLEAN, sp \in {"one", "alt"}, t \in Tails}

PulseTrains ==
    {Wave(0, 1, DISCRIMINATION_THRESHOLD \div TIME_SAMPLING, TrainGap, c, FALSE, "alt", t) :
        c \in (MAX_ADC_VALUES - 1)..(MAX_ADC_VALUES + 1), t \in Tails}

\* waveforms digitized with noise: empty, flat, one pulse
NoisyWaves ==
    {Wave(0, 1, a, 1, c, FALSE, "one", t) :
        a \in Amps, c \in {0, 1}, t \in {0, MaxWidth}}

QuietPat == [i \in 1..NoisePeriod |-> 0]
NoisePats == [1..NoisePeriod -> {-ZMax, 0, ZMax}]

Input(w, thr, pat) == [wave |-> w, thr |-> thr, pat |-> pat]

QuietInputs ==
    {Input(w, thr, QuietPat) :
        w \in SinglePulses \cup DoublePulses \cup PulseTrains, thr \in Thresholds}

NoisyInputs ==
    {Input(w, thr, pat) : w \in NoisyWaves, thr \in Thresholds, pat \in NoisePats}

Inputs == QuietInputs \cup NoisyInputs

\* the state of n threads before the kernel is launched on the inputs ins[ip]
FeeLaunch(n, ins) ==
    /\ npix = n
    /\ wave = [ip \in 0..(n - 1) |-> ins[ip].wave]
    /\ pixel_thresholds = [ip \in 0..(n - 1) |-> ins[ip].thr]
    /\ rng_states = [ip \in 0..(n - 1) |-> [pat |-> ins[ip].pat, n |-> 0]]
    /\ pc = [ip \in 0..(n - 1) |-> "start"]
    /\ ic = [ip \in 0..(n - 1) |-> 0]
    /\ iadc = [ip \in 0..(n - 1) |-> 0]
    /\ adc_busy = [ip \in 0..(n - 1) |-> 0]
    /\ last_reset = [ip \in 0..(n - 1) |-> 0]
    /\ q_sum = [ip \in 0..(n - 1) |-> 0]
    /\ crossing_time_tick = [ip \in 0..(n - 1) |-> -1]
    /\ integrate_end = [ip \in 0..(n - 1) |-> -1]
    /\ adc_list = [ip \in 0..(n - 1) |-> [k \in 0..(MAX_ADC_VALUES - 1) |-> 0]]
    /\ adc_ticks_list = [ip \in 0..(n - 1) |-> [k \in 0..(MAX_ADC_VALUES - 1) |-> 0]]
    /\ current_fractions = [ip \in 0..(n - 1) |-> [k \in 0..(MAX_ADC_VALUES - 1) |-> ZeroRow]]
    /\ printed = [ip \in 0..(n - 1) |-> FALSE]
    /\ slots_used = [ip \in 0..(n - 1) |-> {}]
    /\ ticks_read = [ip \in 0..(n - 1) |-> {}]

\* no digitizer thread
FeeIdle == FeeLaunch(0, <<>>)

\* the pixel list of a track that touches the pixels A: ascending, -1 padded
ListOf(A) ==
    [ipix \in PixCols |->
        IF ipix < Cardinality(A)
        THEN CHOOSE pID \in A : Cardinality({j \in A : j < pID}) = ipix
        ELSE -1]

PixelLists == {ListOf(A) : A \in SUBSET (1..NPixelIds)}

TickCounts == {1, 2}

\* start times: all tracks at 0, or the odd tracks one sampling period later
StartPatterns ==
    {[itrk \in 0..(NTracks - 1) |-> 0],
     [itrk \in 0..(NTracks - 1) |-> (itrk % 2) * TIME_SAMPLING]}

\* the state before get_track_pixel_map and sum_pixel_signals are launched
SumLaunch(pix, T, starts) ==
    /\ pixels = pix
    /\ nticks = T
    /\ track_starts = starts
    /\ track_pixel_map = [index \in UniqueIndexes |-> [imap \in 0..(MapWidth - 1) |-> -1]]
    /\ map_done = {}
    /\ pixels_signals = [index \in UniqueIndexes |-> [t \in 0..T |-> 0]]
    /\ pixels_tracks_signals =
          [index \in UniqueIndexes |-> [t \in 0..T |-> [imap \in 0..(MapWidth - 1) |-> 0]]]
    /\ sum_pc = [w \in {x \in SumThreads : Adds(x)} |-> "ready"]

\* no reducer thread
SumIdle == SumLaunch(<<>>, 0, <<>>)

\* the segments: end points on a grid of half pitches, two diffusion widths
Coords == {c * (PIXEL_PITCH \div 2) : c \in 0..SegMax}
Sigmas == {0, PIXEL_PITCH \div 5}
Segments ==
    [x_start : Coords, y_start : Coords, z_start : Coords,
     x_end : Coords, y_end : Coords, z_end : Coords, tran_diff : Sigmas]

\* the decoded pixel ids; a padding entry decodes to a negative index
PixelIdxs == (-1)..PixIdxMax

\* the state before a thread of tracks_current runs on segment trk and pixel pid
CurrentLaunch(trk, pid, p) ==
    /\ tracks = trk
    /\ pID_xy = pid
    /\ z_res = NoOverlap
    /\ track_signal = "zero"
    /\ div_zero = {}
    /\ tc_pc = p

\* the state before get_closest_waveform is called with args
LookupLaunch(args, p) ==
    /\ lk_args = args
    /\ lk_value = 0
    /\ response_reads = {}
    /\ lk_pc = p

NoSegment ==
    [x_start |-> 0, y_start |-> 0, z_start |-> 0,
     x_end |-> 0, y_end |-> 0, z_end |-> 0, tran_diff |-> 0]

\* no thread of tracks_current, no lookup
GeoIdle == CurrentLaunch(NoSegment, <<-1, -1>>, "idle") /\ LookupLaunch(<<0, 0, 0>>, "idle")

\* the state before time_intervals is launched on a grid of `grid` threads
TimeLaunch(padding, times, grid) ==
    /\ TIME_PADDING = padding
    /\ track_times = times
    /\ time_max = 0
    /\ ticks_passed = [itrk \in DOMAIN times |-> "none"]
    /\ ti_pc = [itrk \in 0..(grid - 1) |-> "start"]

TimeIdle == TimeLaunch(0, <<>>, 0)

\* t_start and t_end of a segment: inside, at the end of and beyond the
\* valid time interval
TrackTimes == {0, 1450, 2950, 4500}
Windows == {w \in [t_start : TrackTimes, t_end : TrackTimes] : w.t_start <= w.t_end}
\* detector.TIME_PADDING: 1 us, 2 us
Paddings == {1000, 2000}

\* the state before an x-y sample is treated
SampleLaunch(dist, s) ==
    /\ xy_dist = dist
    /\ kernel_current = s
    /\ batched_current = s

SampleIdle == SampleLaunch(<<0, 0>>, "idle")

\* x_dist, y_dist: up to a pixel pitch
Distances == 0..PIXEL_PITCH

\* the state before digitize is called
DigitizeLaunch(integrals) ==
    /\ integral_list = integrals
    /\ adcs = <<>>

DigitizeIdle == DigitizeLaunch(<<>>)

\* integrated charges: multiples of 20000 electrons, from below the zero of
\* the voltage to beyond the reference voltage
Charges == {k * 20000 : k \in (-5)..ChargeSteps}

\* the state of export_to_hdf5 at line 128
ExportLaunch(in, s) ==
    /\ export_in = in
    /\ ex_pc = s
    /\ ex_itick = 0
    /\ ex_iadc = 0
    /\ last_event = -1
    /\ packets = <<[kind |-> "timestamp"]>>
    /\ packets_mc = <<NoTracks>>
    /\ packets_frac = <<NoFraction>>
    /\ packets_mc_ds = <<>>

NoExport ==
    [adc_list |-> <<>>, event_id_list |-> <<>>, event_start_time_list |-> <<>>,
     lookup |-> <<>>]

ExportIdle == ExportLaunch(NoExport, "idle")

\* the code of a sample: the digitized discrimination threshold
SampleCode == digitize(DISCRIMINATION_THRESHOLD)

\* a row of adc_list with n samples; the unused slots hold digitize(0)
AdcRow(n) == [i \in 1..NExportSlots |-> IF i <= n THEN SampleCode ELSE digitize(0)]

\* start times of the events 0 and 1, in units of 2**31 clock cycles
StartEpochs == {<<0, 0>>, <<0, 1>>, <<1, 1>>}

Lookups == {"connected", "invalid pixel", "missing chip", "bad channel"}

ExportInputs ==
    {[adc_list |-> [ipx \in 0..(NExportPixels - 1) |-> AdcRow(n[ipx])],
      event_id_list |-> e,
      event_start_time_list |-> [ipx \in 0..(NExportPixels - 1) |-> epochs[e[ipx] + 1]],
      lookup |-> l] :
        n \in [0..(NExportPixels - 1) -> 0..NExportSlots],
        e \in [0..(NExportPixels - 1) -> {0, 1}],
        epochs \in StartEpochs,
        l \in [0..(NExportPixels - 1) -> Lookups]}

\* nothing but the digitizer, the reducer and the induced-current kernel runs
HostIdle == TimeIdle /\ SampleIdle /\ DigitizeIdle /\ ExportIdle

\* time_intervals on NTimeTracks segments, on a grid one thread larger
InitTime ==
    /\ FeeIdle /\ GeoIdle /\ SampleIdle /\ DigitizeIdle /\ ExportIdle
    /\ SumLaunch(<<>>, 0, [itrk \in 0..(NTimeTracks - 1) |-> 0])
    /\ \E padding \in Paddings, times \in [0..(NTimeTracks - 1) -> Windows] :
          TimeLaunch(padding, times, NTimeTracks + 1)

SpecTime == InitTime /\ [][NextTime]_vars

\* one x-y sample in the two implementations
InitSample ==
    /\ FeeIdle /\ SumIdle /\ GeoIdle /\ TimeIdle /\ DigitizeIdle /\ ExportIdle
    /\ \E x_dist \in Distances, y_dist \in Distances : SampleLaunch(<<x_dist, y_dist>>, "none")

SpecSample == InitSample /\ [][NextSample]_vars

\* digitize on every pair of charges
InitDigitize ==
    /\ FeeIdle /\ SumIdle /\ GeoIdle /\ TimeIdle /\ SampleIdle /\ ExportIdle
    /\ \E q1 \in Charges, q2 \in Charges : DigitizeLaunch(<<q1, q2>>)

SpecDigitize == InitDigitize /\ [][NextDigitize]_vars

\* export_to_hdf5 on every input of NExportPixels pixels
InitExport ==
    /\ FeeIdle /\ SumIdle /\ GeoIdle /\ TimeIdle /\ SampleIdle /\ DigitizeIdle
    /\ \E in \in ExportInputs : ExportLaunch(in, "sample")

SpecExport == InitExport /\ [][NextExport]_vars


\* distances and times from one bin below the table to one bin above it
LookupXs == (-bin_width)..((NBins + 1) * bin_width)
LookupTs == (-RESPONSE_SAMPLING)..((NTimeBins + 1) * RESPONSE_SAMPLING)

InitCurrent ==
    /\ FeeIdle /\ SumIdle
    /\ \E trk \in Segments, i_x \in PixelIdxs, i_y \in PixelIdxs :
          CurrentLaunch(trk, <<i_x, i_y>>, "start")
    /\ LookupLaunch(<<0, 0, 0>>, "idle")
    /\ HostIdle

SpecCurrent == InitCurrent /\ [][NextCurrent]_vars

InitLookup ==
    /\ FeeIdle /\ SumIdle
    /\ CurrentLaunch(NoSegment, <<-1, -1>>, "idle")
    /\ \E x \in LookupXs, y \in LookupXs, t \in LookupTs : LookupLaunch(<<x, y, t>>, "call")
    /\ HostIdle

SpecLookup == InitLookup /\ [][NextLookup]_vars

\* one pixel, every input
Init ==
    /\ (\E in \in Inputs : FeeLaunch(1, [ip \in {0} |-> in]))
    /\ SumIdle /\ GeoIdle /\ HostIdle

Next == NextFee

Spec == Init /\ [][Next]_vars

\* the reducer on every batch whose adding threads are at most MaxWorkers
InitSum ==
    /\ FeeIdle
    /\ \E pix \in [0..(NTracks - 1) -> PixelLists], T \in TickCounts, starts \in StartPatterns :
          /\ T * Cardinality({e \in (0..(NTracks - 1)) \X PixCols : pix[e[1]][e[2]] # -1})
                <= MaxWorkers
          /\ SumLaunch(pix, T, starts)
    /\ GeoIdle /\ HostIdle

SpecSum == InitSum /\ [][NextSum]_vars

\* waveforms digitized twice: two pulses with the waveform ending on the second
TwinWaves ==
    {Wave(0, 1, a, g, 2, n, "alt", 0) :
        a \in Amps, g \in {HoldInterval + ResetTicks + 1, TrainGap}, n \in BOOLEAN}

TwinInputs ==
    {Input(w, DISCRIMINATION_THRESHOLD, QuietPat) : w \in TwinWaves}
    \cup {Input(Wave(0, 1, 0, 1, 0, FALSE, "one", MaxWidth), thr, pat) :
            thr \in Thresholds, pat \in NoisePats}

\* a train of exactly MAX_ADC_VALUES pulses, and the same with one pulse more
FullTrain ==
    Input(Wave(0, 1, DISCRIMINATION_THRESHOLD \div TIME_SAMPLING, TrainGap,
               MAX_ADC_VALUES, FALSE, "one", 0),
          DISCRIMINATION_THRESHOLD, QuietPat)
LongerTrain ==
    Input(Wave(0, 1, DISCRIMINATION_THRESHOLD \div TIME_SAMPLING, TrainGap,
               MAX_ADC_VALUES + 1, FALSE, "one", 0),
          DISCRIMINATION_THRESHOLD, QuietPat)

\* two pixels: the same input twice, or the two trains
InitPair ==
    /\ \/ \E in \in TwinInputs : FeeLaunch(2, [ip \in {0, 1} |-> in])
       \/ FeeLaunch(2, [ip \in {0, 1} |-> IF ip = 0 THEN FullTrain ELSE LongerTrain])
    /\ SumIdle
    /\ GeoIdle /\ HostIdle

SpecPair == InitPair /\ [][NextFee]_vars

FairSpec == Spec /\ WF_vars(Next)

(***************************************************************************)
(* Quantities the claims speak of, computed from the inputs alone.         *)
(***************************************************************************)
RECURSIVE ChargeBetween(_, _, _)
\* the charge of the waveform's ticks lo .. hi - 1
ChargeBetween(ip, lo, hi) ==
    IF lo >= hi THEN 0 ELSE TickCharge(ip, lo) + ChargeBetween(ip, lo + 1, hi)

\* the first tick at which the charge since tick 0 has reached the threshold
FirstCross(ip) ==
    CHOOSE i \in 0..(WaveLen(ip) - 1) :
        /\ ChargeBetween(ip, 0, i + 1) >= pixel_thresholds[ip]
        /\ \A j \in 0..(i - 1) : ChargeBetween(ip, 0, j + 1) < pixel_thresholds[ip]

\* the tick scanning resumes at after a sample that crossed at tick c
ResumeTick(ip, c) ==
    (IF c + HoldInterval + 1 < WaveLen(ip) THEN c + HoldInterval + 1
     ELSE IF c + 1 < WaveLen(ip) THEN WaveLen(ip) ELSE c + 1) + ResetTicks

ZeroNoise(ip) == rng_states[ip].pat = QuietPat
PulseCharge(ip) == wave[ip].width * wave[ip].amp * TIME_SAMPLING
Done(ip) == pc[ip] = "done"

\* a row of current_fractions that is 1.0 in slot 0 and 0 elsewhere
FullyAttributed(row) ==
    /\ row[0].den # 0 /\ row[0].num = row[0].den
    /\ \A itrk \in 1..(NSlots - 1) : row[itrk].den # 0 /\ row[itrk].num = 0

\* a row of current_fractions whose entries sum to 1
SumsToOne(row) ==
    /\ \A itrk \in 0..(NSlots - 1) : row[itrk].den = row[0].den
    /\ row[0].den # 0
    /\ SumTo([itrk \in 0..(NSlots - 1) |-> row[itrk].num], NSlots) = row[0].den

(***************************************************************************)
(* C1.  Zero noise, one track, one rectangular pulse whose charge exceeds  *)
(* the threshold.                                                          *)
(***************************************************************************)
C1Case(ip) ==
    /\ ZeroNoise(ip)
    /\ wave[ip].count = 1 /\ wave[ip].split = "one"
    /\ PulseCharge(ip) > pixel_thresholds[ip]

C1Result(ip) ==
    /\ iadc[ip] = 1
    /\ adc_ticks_list[ip][0] = time_ticks(FirstCross(ip)) + time_padding + 2
    /\ FullyAttributed(current_fractions[ip][0])

\* C1 as stated: a finished digitization of such a pulse has emitted exactly
\* one sample, stamped with the first tick at which the charge since tick 0
\* reached the threshold, and attributed 1.0 to the single track.
C1_AsStated == \A ip \in Pixels : (Done(ip) /\ C1Case(ip)) => C1Result(ip)

\* C1 amended: the same, for a pulse whose part after the first sample's hold
\* window and reset holds less charge than the threshold.
C1_OnePulseOneSample ==
    \A ip \in Pixels :
        (/\ Done(ip) /\ C1Case(ip)
         /\ ChargeBetween(ip, ResumeTick(ip, FirstCross(ip)), WaveLen(ip))
                < pixel_thresholds[ip])
        => C1Result(ip)

\* a pulse that needs two ticks to reach the threshold was digitized
C1_Witness ==
    \E ip \in Pixels :
        /\ Done(ip) /\ C1Case(ip) /\ iadc[ip] = 1
        /\ FirstCross(ip) > wave[ip].start
        /\ wave[ip].width > HoldInterval

(***************************************************************************)
(* C2.  Zero noise, two short pulses that each reach the threshold.        *)
(***************************************************************************)
C2Case(ip) ==
    /\ ZeroNoise(ip)
    /\ wave[ip].count = 2 /\ ~wave[ip].neg
    /\ wave[ip].width <= MaxWidth
    /\ PulseCharge(ip) >= pixel_thresholds[ip]

\* the hold delay alone, in ticks
HoldDelayTicks == Round(ADC_HOLD_DELAY * CLOCK_CYCLE, TIME_SAMPLING)

\* C2: a second pulse that starts fewer ticks after the first than the busy
\* delay is suppressed (one sample); one that starts more than busy + hold
\* delay ticks after the first gives a second sample (two samples).
C2_BusySuppression ==
    \A ip \in Pixels :
        (Done(ip) /\ C2Case(ip)) =>
            /\ (wave[ip].gap < BusyTicks => iadc[ip] = 1)
            /\ (wave[ip].gap > BusyTicks + HoldDelayTicks => iadc[ip] = 2)

C2_Witness ==
    \E ip \in Pixels :
        /\ Done(ip) /\ C2Case(ip)
        /\ wave[ip].gap = ADC_BUSY_DELAY + ADC_HOLD_DELAY + 1
        /\ wave[ip].width = MaxWidth
        /\ iadc[ip] = 2

(***************************************************************************)
(* C3.  Sample slots.                                                      *)
(***************************************************************************)
\* C3: a pixel never holds more than MAX_ADC_VALUES samples and never indexes
\* adc_list, adc_ticks_list or current_fractions at a slot >= MAX_ADC_VALUES.
C3_SlotsInRange ==
    \A ip \in Pixels :
        /\ iadc[ip] <= MAX_ADC_VALUES
        /\ \A k \in slots_used[ip] : k >= 0 /\ k < MAX_ADC_VALUES

\* the last slot was filled and scanning went on
C3_Witness ==
    \E ip \in Pixels :
        /\ iadc[ip] = MAX_ADC_VALUES /\ printed[ip]
        /\ (MAX_ADC_VALUES - 1) \in slots_used[ip]

(***************************************************************************)
(* C5.  Normalised shares.                                                 *)
(***************************************************************************)
\* C5: the fraction vector of every emitted sample sums to 1.
C5_FractionsSumToOne ==
    \A ip \in Pixels : \A k \in 0..(iadc[ip] - 1) :
        SumsToOne(current_fractions[ip][k])

(***************************************************************************)
(* C6.  Termination.                                                       *)
(***************************************************************************)
\* C6: every pixel's loop eventually stops, and a pixel that stopped without
\* the capacity message has its tick pointer at or past the end of the
\* waveform and its busy countdown at zero.
C6_Terminates ==
    /\ <>(\A ip \in Pixels : Done(ip))
    /\ [](\A ip \in Pixels :
            (Done(ip) /\ ~printed[ip]) => (ic[ip] >= WaveLen(ip) /\ adc_busy[ip] = 0))

\* a pixel stopped normally after a busy time that outlasted its waveform
C6_Witness ==
    \E ip \in Pixels :
        /\ Done(ip) /\ ~printed[ip] /\ iadc[ip] >= 1
        /\ ic[ip] > WaveLen(ip) /\ ~ZeroNoise(ip)

(***************************************************************************)
(* What the caller of get_adc_values gets back for a pixel.                *)
(***************************************************************************)
Outcome(ip) ==
    <<iadc[ip], adc_list[ip], adc_ticks_list[ip], current_fractions[ip], printed[ip]>>

SameInput(p, q) ==
    /\ wave[p] = wave[q]
    /\ pixel_thresholds[p] = pixel_thresholds[q]
    /\ rng_states[p].pat = rng_states[q].pat

(***************************************************************************)
(* C4.  The capacity condition.                                            *)
(***************************************************************************)
\* the capacity branch ended the pixel while the rest of its waveform still
\* held the charge of a further sample
Truncated(ip) ==
    /\ Done(ip) /\ printed[ip] /\ ZeroNoise(ip)
    /\ ChargeBetween(ip, ic[ip], WaveLen(ip)) >= pixel_thresholds[ip]

\* the whole waveform was digitized and no noise can trigger a further sample
Complete(ip) == Done(ip) /\ ZeroNoise(ip) /\ ic[ip] >= WaveLen(ip)

\* C4: what the caller gets for a pixel cut short by the capacity condition
\* differs from what it gets for a pixel that was digitized completely.
C4_TruncationSurfaced ==
    \A p \in Pixels : \A q \in Pixels :
        (Truncated(p) /\ Complete(q)) => Outcome(p) # Outcome(q)

(***************************************************************************)
(* C7.  Determinism.                                                       *)
(***************************************************************************)
\* C7: two digitizations of the same waveforms, threshold and noise stream
\* give the same samples: number, values, timestamps and fraction vectors.
C7_Deterministic ==
    \A p \in Pixels : \A q \in Pixels :
        (Done(p) /\ Done(q) /\ SameInput(p, q)) => Outcome(p) = Outcome(q)

(***************************************************************************)
(* The reducer's result, computed from its arguments alone.                *)
(***************************************************************************)
AllSummed == MapFinished /\ \A w \in DOMAIN sum_pc : sum_pc[w] = "done"

\* the tracks whose pixel list holds the unique pixel `index`
TracksOn(index) ==
    {itrk \in Tracks : \E ipix \in PixCols : pixel_index_map(itrk, ipix) = index}

NoOverflow == \A index \in UniqueIndexes : Cardinality(TracksOn(index)) <= MapWidth

RECURSIVE SumSignals(_)
\* the sum of the signals of a set of threads
SumSignals(ws) ==
    IF ws = {} THEN 0
    ELSE LET w == CHOOSE x \in ws : TRUE
         IN  signals(w[1], w[2], w[3]) + SumSignals(ws \ {w})

\* the threads whose contribution belongs to unique pixel `index` at tick t
ThreadsAt(index, t) ==
    {w \in SumThreads :
        /\ pixel_index_map(w[1], w[2]) = index
        /\ Round(track_starts[w[1]], TIME_SAMPLING) + w[3] = t}

TickRange == 0..nticks
SlotRange == 0..(MapWidth - 1)

(***************************************************************************)
(* C8.  Per-track shares add up to the total.                              *)
(***************************************************************************)
\* C8: after the reducer has run on a batch in which no pixel is touched by
\* more tracks than the table is wide, the per-track entries of every pixel
\* and tick add up to the accumulated total of that pixel and tick.
C8_SharesAddUp ==
    (AllSummed /\ NoOverflow) =>
        \A index \in UniqueIndexes : \A t \in TickRange :
            SumTo(pixels_tracks_signals[index][t], MapWidth) = pixels_signals[index][t]

\* a pixel filled to the table's width by tracks that start at different ticks
C8_Witness ==
    /\ AllSummed /\ NoOverflow
    /\ \E index \in UniqueIndexes :
          /\ Cardinality(TracksOn(index)) = MapWidth
          /\ \E t \in TickRange : t > 0 /\ pixels_signals[index][t] > 0
          /\ pixels_signals[index][0] > 0

(***************************************************************************)
(* C9.  Tracks beyond the table's width.                                   *)
(***************************************************************************)
\* C9: the waveform of a track that has no slot in a pixel's row is added to
\* no per-track slot: every slot holds the contributions of its own track.
C9_ExcessDropped ==
    AllSummed =>
        \A index \in UniqueIndexes : \A t \in TickRange : \A imap \in SlotRange :
            pixels_tracks_signals[index][t][imap] =
                SumSignals({w \in ThreadsAt(index, t) :
                               track_pixel_map[index][imap] = w[1]})

(***************************************************************************)
(* C10.  Concurrent adds.                                                  *)
(***************************************************************************)
\* C10: whatever the interleaving of the threads, the final arrays hold the
\* sequential sums: every contribution once, in its own pixel's entries.
C10_SequentialSums ==
    AllSummed =>
        \A index \in UniqueIndexes : \A t \in TickRange :
            /\ pixels_signals[index][t] = SumSignals(ThreadsAt(index, t))
            /\ \A imap \in SlotRange :
                  pixels_tracks_signals[index][t][imap] =
                      SumSignals({w \in ThreadsAt(index, t) :
                          Counter(MapLoop([i \in SlotRange |-> -1], unique_pix(index), 0, 0),
                                  w[1]) = imap})

\* several threads have added to the same entry, and two pixels were summed
C10_Witness ==
    /\ AllSummed
    /\ Cardinality(UniqueIndexes) = NPixelIds
    /\ \E index \in UniqueIndexes : \E t \in TickRange :
          Cardinality(ThreadsAt(index, t)) >= 2

(***************************************************************************)
(* C11.  Absolute ticks.                                                   *)
(***************************************************************************)
\* the threads of ws that have made their first add, and those that made both
AddedTotal(ws) == {w \in ws : sum_pc[w] # "ready"}
AddedTrack(ws) == {w \in ws : sum_pc[w] = "done"}

\* C11: at every moment the accumulated waveform of a unique pixel holds, at
\* absolute tick t, exactly the values signals[s][p][k] of the threads that
\* have added and for which p is that pixel and k + round(track_starts[s] /
\* TIME_SAMPLING) = t, and so do the pixel's per-track entries of tick t taken
\* together: a thread changes no other tick, and an entry whose pixel index is
\* negative adds nothing.
C11_AbsoluteTick ==
    \A index \in UniqueIndexes : \A t \in TickRange :
        /\ pixels_signals[index][t] = SumSignals(AddedTotal(ThreadsAt(index, t)))
        /\ SumTo(pixels_tracks_signals[index][t], MapWidth)
              = SumSignals(AddedTrack(ThreadsAt(index, t)))

\* a track that starts one tick late has added its last tick, next to a
\* padding entry of the same track, while other threads have yet to add
C11_Witness ==
    /\ ~AllSummed
    /\ \E w \in DOMAIN sum_pc :
          /\ sum_pc[w] = "done"
          /\ Round(track_starts[w[1]], TIME_SAMPLING) = 1
          /\ w[3] = nticks - 1
          /\ \E ipix \in PixCols : pixel_index_map(w[1], ipix) = -1

(***************************************************************************)
(* C12.  The response lookup.                                              *)
(***************************************************************************)
\* C12: get_closest_waveform returns 0 when one of the three bin indices is
\* negative or not below the table's extent on its axis, returns
\* response[i][j][k] when the three are inside, and reads the table only at
\* indices it has an entry for.
C12_LookupInBounds ==
    lk_pc = "done" =>
        LET i == BinIndex(lk_args[1])
            j == BinIndex(lk_args[2])
            k == TimeIndex(lk_args[3])
            outside == \/ i < 0 \/ i >= ResponseShape[1]
                       \/ j < 0 \/ j >= ResponseShape[2]
                       \/ k < 0 \/ k >= ResponseShape[3]
        IN  /\ outside => lk_value = 0 /\ response_reads = {}
            /\ ~outside => lk_value = response(i, j, k) /\ response_reads = {<<i, j, k>>}
            /\ \A r \in response_reads : Tabulated(r[1], r[2], r[3])

\* the last entry of the table was returned for the largest x and t that
\* round to it
C12_Witness ==
    /\ lk_pc = "done"
    /\ lk_value = response(ResponseShape[1] - 1, ResponseShape[2] - 1, ResponseShape[3] - 1)
    /\ BinIndex(lk_args[1] + 1) = ResponseShape[1]
    /\ TimeIndex(lk_args[3] + 1) = ResponseShape[3]

(***************************************************************************)
(* C13.  Pixels out of a segment's reach.                                  *)
(***************************************************************************)
\* the square of the distance, in the pixel plane, between the point (px, py)
\* and the segment from (ax, ay) to (bx, by)
Distance2(px, py, ax, ay, bx, by) ==
    LET dot  == (px - ax) * (bx - ax) + (py - ay) * (by - ay)
        len2 == Sq(bx - ax) + Sq(by - ay)
    IN  IF dot <= 0 THEN Rat(Sq(px - ax) + Sq(py - ay), 1)
        ELSE IF dot >= len2 THEN Rat(Sq(px - bx) + Sq(py - by), 1)
        ELSE Rat((Sq(px - ax) + Sq(py - ay)) * len2 - Sq(dot), len2)

\* the distance of closest approach of the thread's pair, squared
Doca2 ==
    Distance2(PixelCentre(pID_xy[1]), PixelCentre(pID_xy[2]),
              tracks.x_start, tracks.y_start, tracks.x_end, tracks.y_end)

OutOfReach == ~RatLess(Doca2, Rat(ImpactFactor2(tracks), 1))

Degenerate == tracks.x_start = tracks.x_end

Position(ip) == <<pc[ip], ic[ip], iadc[ip], rng_states[ip].n>>

\* the rest of the thread's locals, and the pixel's rows of the outputs
Rows(ip) ==
    <<adc_busy[ip], last_reset[ip], q_sum[ip], crossing_time_tick[ip],
      integrate_end[ip], adc_list[ip], adc_ticks_list[ip], current_fractions[ip],
      printed[ip]>>

\* C15: what the thread of a pixel holds and has written at a position
\* depends on the pixel's waveform, threshold and noise alone, whatever the
\* other threads have done by then: two pixels with the same input agree at
\* every position, however their steps are interleaved.
C15_PixelsIndependent ==
    \A p \in Pixels : \A q \in Pixels :
        (SameInput(p, q) /\ Position(p) = Position(q)) => Rows(p) = Rows(q)

(***************************************************************************)
(* C16.  The busy time.                                                    *)
(***************************************************************************)
\* every timestamp of the pixel was read inside time_ticks
ReadsInRange(ip) == \A i \in ticks_read[ip] : i < WaveLen(ip)

\* the crossing tick of the pixel's latest sample, from its timestamp
LastCross(ip) == adc_ticks_list[ip][iadc[ip] - 1] - time_padding - 2

\* C16: a crossing recorded after a sample lies at least BusyTicks scan steps
\* after the tick r at which scanning resumed past the reset delay: none is
\* recorded at r, r + 1, ..., r + BusyTicks - 1.
C16_BusyBlocksCrossings ==
    \A ip \in Pixels :
        (pc[ip] = "hold" /\ iadc[ip] >= 1 /\ ReadsInRange(ip)) =>
            crossing_time_tick[ip] >= ResumeTick(ip, LastCross(ip)) + BusyTicks

(***************************************************************************)
(* C17.  Charge that arrives during the busy time.                         *)
(***************************************************************************)
\* C17: while the busy countdown of a pixel is above zero, no step adds to
\* the pixel's q_sum or to its per-track shares.
C17_NoChargeWhileBusy ==
    [][\A ip \in Pixels :
          adc_busy[ip] > 0 =>
              /\ q_sum'[ip] = q_sum[ip]
              /\ current_fractions'[ip] = current_fractions[ip]]_vars

(***************************************************************************)
(* C18.  False triggers.                                                   *)
(***************************************************************************)
\* what q_sum can be after a reset: a noise draw, without accumulated charge
FreshCharges ==
    {z * sigma : z \in {-ZMax, 0, ZMax},
                 sigma \in {RESET_NOISE_CHARGE, UNCORRELATED_NOISE_CHARGE}}

\* C18: the step that follows a hold window whose sampled charge is below the
\* threshold emits nothing: the slot index and the stored samples and
\* timestamps stay, the shares of the current slot become zero, q_sum becomes
\* a fresh noise draw, the busy countdown stays at zero and the tick pointer
\* moves on by one clock cycle worth of ticks.
C18_FalseTriggerDiscards ==
    [][\A ip \in Pixels :
          (pc[ip] = "hold" /\ pc'[ip] = "loop" /\ SampleBelow(ip)) =>
              /\ iadc'[ip] = iadc[ip]
              /\ adc_list'[ip] = adc_list[ip]
              /\ adc_ticks_list'[ip] = adc_ticks_list[ip]
              /\ current_fractions'[ip] =
                    [current_fractions[ip] EXCEPT ![iadc[ip]] = ZeroRow]
              /\ q_sum'[ip] \in FreshCharges
              /\ adc_busy'[ip] = 0
              /\ ic'[ip] = ic[ip] + Round(CLOCK_CYCLE, TIME_SAMPLING)]_vars

\* without noise, a negative pulse inside the hold window took the sampled
\* charge below the threshold, and scanning has just resumed
C18_Witness ==
    \E ip \in Pixels :
        /\ ZeroNoise(ip) /\ wave[ip].neg
        /\ pc[ip] = "loop" /\ iadc[ip] = 0
        /\ last_reset[ip] > 0 /\ ic[ip] = last_reset[ip]
        /\ current_fractions[ip][0] = ZeroRow
        /\ q_sum[ip] = 0

(***************************************************************************)
(* C19.  What a sample integrates.                                         *)
(***************************************************************************)
RECURSIVE TrackChargeBetween(_, _, _, _)
\* the charge track slot itrk induces on the pixel in the ticks lo .. hi - 1
TrackChargeBetween(ip, itrk, lo, hi) ==
    IF lo >= hi \/ lo >= WaveLen(ip) THEN 0
    ELSE TrackCurre(ip, lo, itrk) * TIME_SAMPLING + TrackChargeBetween(ip, itrk, lo + 1, hi)

\* the tick after the last one a sample that crossed at tick c integrates
IntegrationEnd(ip, c) ==
    IF c + HoldInterval < WaveLen(ip) THEN c + HoldInterval + 1 ELSE WaveLen(ip)

\* C19: with zero noise, the step that stores a sample stores the charge of
\* the waveform's ticks from the last reset tick up to and including the
\* crossing tick plus the hold interval, or up to the last tick of the
\* waveform, and the shares it normalises are the per-track charges of the
\* same ticks.
C19_SampleIntegral ==
    [][\A ip \in Pixels :
          (ZeroNoise(ip) /\ iadc'[ip] = iadc[ip] + 1) =>
              LET lo == last_reset[ip]
                  hi == IntegrationEnd(ip, crossing_time_tick[ip])
              IN  /\ adc_list'[ip][iadc[ip]] = ChargeBetween(ip, lo, hi)
                  /\ \A itrk \in 0..(NSlots - 1) :
                        current_fractions[ip][iadc[ip]][itrk]
                            = Charge(TrackChargeBetween(ip, itrk, lo, hi))]_vars

\* a second sample was stored whose charge came from the second track slot
C19_Witness ==
    \E ip \in Pixels :
        /\ ZeroNoise(ip) /\ iadc[ip] = 2 /\ wave[ip].split = "alt"
        /\ adc_list[ip][1] >= pixel_thresholds[ip]
        /\ current_fractions[ip][1][1].num > 0
        /\ crossing_time_tick[ip] + HoldInterval < WaveLen(ip)

(***************************************************************************)
(* C20.  When the capacity branch is taken.                                *)
(***************************************************************************)
\* without noise, the ticks from the tick pointer on hold the charge of one
\* more sample
WouldProduceMore(ip) ==
    \E j \in ic[ip]..WaveLen(ip) : ChargeBetween(ip, ic[ip], j) >= pixel_thresholds[ip]

\* C20: the capacity branch is taken only for a pixel whose waveform would
\* give more than MAX_ADC_VALUES samples; a pixel with exactly that many
\* finishes without the capacity message.
C20_CapacityOnlyOnExcess ==
    \A ip \in Pixels : (printed[ip] /\ ZeroNoise(ip)) => WouldProduceMore(ip)

(***************************************************************************)
(* C21: after get_track_pixel_map, the row of every unique pixel holds the *)
(* tracks whose pixel list contains the pixel, each once, in increasing    *)
(* track order from slot 0 on, followed only by -1; of more tracks than    *)
(* the row is wide, the lowest MapWidth ones are kept.  Rows not yet       *)
(* visited hold -1 only.                                                   *)
(***************************************************************************)
\* the row the claim describes, from the kernel's arguments alone
ExpectedRow(index) ==
    [imap \in 0..(MapWidth - 1) |->
        IF \E itrk \in TracksOn(index) :
               Cardinality({j \in TracksOn(index) : j < itrk}) = imap
        THEN CHOOSE itrk \in TracksOn(index) :
               Cardinality({j \in TracksOn(index) : j < itrk}) = imap
        ELSE -1]

C21_RowContents ==
    \A index \in UniqueIndexes :
        track_pixel_map[index] =
            IF index \in map_done THEN ExpectedRow(index)
            ELSE [imap \in 0..(MapWidth - 1) |-> -1]

\* the map is complete and one pixel is touched by more tracks than fit
C21_Witness ==
    /\ MapFinished
    /\ \E index \in UniqueIndexes :
          /\ Cardinality(TracksOn(index)) > MapWidth
          /\ track_pixel_map[index][MapWidth - 1] # -1
    /\ \E index \in UniqueIndexes : track_pixel_map[index][MapWidth - 1] = -1

(***************************************************************************)
(* C22: the start time that time_intervals stores for a segment lies in    *)
(* the valid time interval, TIME_INTERVAL[0] <= start <= TIME_INTERVAL[1], *)
(* and the tick count the thread passes to the max reduction is never      *)
(* negative, whatever t_start and t_end are.                               *)
(***************************************************************************)
C22_StartInsideInterval ==
    \A itrk \in TimeTracks :
        /\ ti_pc[itrk] \in {"max", "done"} =>
              /\ TIME_INTERVAL[1] <= track_starts[itrk]
              /\ track_starts[itrk] <= TIME_INTERVAL[2]
        /\ ti_pc[itrk] = "done" => ticks_passed[itrk] >= 0

(***************************************************************************)
(* C23: the end of a segment's time window is t_end plus the configured    *)
(* time padding, the one subtracted from t_start, rounded to the sampling  *)
(* grid and clipped to the upper limit of the valid interval: the tick     *)
(* count a thread passes on is the distance from the stored start to that  *)
(* end, for every value of the padding.                                    *)
(***************************************************************************)
\* the end bound the claim describes
PaddedEnd(trk) ==
    Min(TIME_INTERVAL[2], Round(trk.t_end + TIME_PADDING, TIME_SAMPLING) * TIME_SAMPLING)

C23_EndUsesPadding ==
    \A itrk \in TimeTracks :
        ti_pc[itrk] = "done" =>
            ticks_passed[itrk] =
                Ceil(PaddedEnd(track_times[itrk]) - track_starts[itrk], TIME_SAMPLING)

(***************************************************************************)
(* C24: the tolerance that tracks_current passes to z_interval is          *)
(* max(half the diagonal of the pixel pad, 2*sqrt(2*(5*sigma)^2)), squared *)
(* max(PIXEL_PITCH^2 / 2, 8 * (5*sigma)^2): what z_interval returned is    *)
(* what it returns for that tolerance.                                     *)
(***************************************************************************)
\* the square of the tolerance the claim describes
HalfDiagonalFactor2(trk) ==
    Max(Sq(PIXEL_PITCH) \div 2, 4 * (Sq(5 * trk.tran_diff) + Sq(5 * trk.tran_diff)))

C24_ImpactFactor ==
    (tc_pc \in {"test", "done"} /\ ValidPixel) =>
        z_res = z_interval(TrackStart(tracks), TrackEnd(tracks),
                           PixelCentre(pID_xy[1]), PixelCentre(pID_xy[2]),
                           HalfDiagonalFactor2(tracks))

(***************************************************************************)
(* C25: the kernel and the batched implementation of tracks_current admit  *)
(* the same x-y samples into the current sum: in both, a sample adds to    *)
(* the sum exactly when its distance from the pixel centre is at most      *)
(* PIXEL_PITCH/2 + PIXEL_PITCH/4 on the x axis and on the y axis.          *)
(***************************************************************************)
\* half the pitch plus the quarter-pitch margin
WithinMargin(dist) ==
    /\ 4 * dist[1] <= 3 * PIXEL_PITCH
    /\ 4 * dist[2] <= 3 * PIXEL_PITCH

C25_SameSamples ==
    (kernel_current # "none" /\ batched_current # "none") =>
        /\ kernel_current = batched_current
        /\ kernel_current = "added" <=> WithinMargin(xy_dist)
        /\ batched_current = "added" <=> WithinMargin(xy_dist)

(***************************************************************************)
(* C26: the samples of a pixel are emitted in the order of their crossing  *)
(* ticks and fill the slots 0, 1, 2, ... of the pixel's output without a   *)
(* gap: the slot counter starts at 0, and a step that emits a sample       *)
(* writes the slot the counter points at, leaves every other slot alone,   *)
(* moves the counter on by one, and its crossing tick is greater than the  *)
(* crossing tick of every sample the pixel has emitted before.             *)
(***************************************************************************)
C26_SamplesOrdered ==
    [][\A ip \in Pixels :
          /\ (pc[ip] = "start" /\ pc'[ip] # "start") => iadc'[ip] = 0
          /\ (pc[ip] # "start" /\ iadc'[ip] # iadc[ip]) =>
                /\ iadc'[ip] = iadc[ip] + 1
                /\ iadc[ip] \in DOMAIN adc_list[ip]
                /\ adc_list'[ip] = [adc_list[ip] EXCEPT ![iadc[ip]] = SampleAdc(ip)]
                /\ \A k \in DOMAIN adc_ticks_list[ip] :
                      k # iadc[ip] => adc_ticks_list'[ip][k] = adc_ticks_list[ip][k]
                /\ \A i \in ticks_read[ip] : i < crossing_time_tick[ip]
                /\ ticks_read'[ip] = ticks_read[ip] \cup {crossing_time_tick[ip]}
                /\ Cardinality(ticks_read'[ip]) = iadc'[ip]
          /\ (pc[ip] # "start" /\ iadc'[ip] = iadc[ip]) =>
                /\ adc_list'[ip] = adc_list[ip]
                /\ adc_ticks_list'[ip] = adc_ticks_list[ip]]_vars

\* a pixel has emitted three samples, the timestamps in the order of the slots
C26_Witness ==
    \E ip \in Pixels :
        /\ iadc[ip] = 3
        /\ Cardinality(ticks_read[ip]) = 3
        /\ ReadsInRange(ip)
        /\ adc_ticks_list[ip][0] < adc_ticks_list[ip][1]
        /\ adc_ticks_list[ip][1] < adc_ticks_list[ip][2]

(***************************************************************************)
(* C27: a crossing tick that get_adc_values records is an index of the     *)
(* pixel's waveform, 0 <= crossing tick < waveform length, and the         *)
(* timestamp of every emitted sample is read from an entry of time_ticks   *)
(* that exists.                                                            *)
(***************************************************************************)
C27_CrossingInRange ==
    \A ip \in Pixels :
        /\ pc[ip] = "hold" =>
              (0 <= crossing_time_tick[ip] /\ crossing_time_tick[ip] < WaveLen(ip))
        /\ \A i \in ticks_read[ip] : 0 <= i /\ i < WaveLen(ip)

(***************************************************************************)
(* C28: for a pair of a valid pixel and a segment with distinct x at its   *)
(* ends, whose distance of closest approach is smaller than the impact     *)
(* tolerance, z_interval returns a genuine result and the test of line 321 *)
(* sends the thread into the integration, also when the drift coordinate   *)
(* of the point of closest approach is 0.                                  *)
(***************************************************************************)
C28_NoFalseSentinel ==
    (tc_pc = "test" /\ ValidPixel /\ ~Degenerate /\ ~OutOfReach) =>
        Overlapping(z_res)

(***************************************************************************)
(* C29: digitize maps every integrated charge to an integer code of        *)
(* 0 .. ADC_COUNTS - 1, non-decreasing in the charge; a charge at or below *)
(* the zero of the voltage maps to 0.                                      *)
(***************************************************************************)
\* the charge at which integral * GAIN + V_PEDESTAL - V_CM is zero
ZeroVoltageCharge == -(((V_PEDESTAL - V_CM) * GAIN.den) \div GAIN.num)

C29_CodeFitsBitDepth ==
    adcs # <<>> =>
        /\ \A i \in DOMAIN adcs :
              /\ adcs[i] \in 0..(ADC_COUNTS - 1)
              /\ integral_list[i] <= ZeroVoltageCharge => adcs[i] = 0
        /\ \A i, j \in DOMAIN adcs :
              integral_list[i] <= integral_list[j] => adcs[i] <= adcs[j]

(***************************************************************************)
(* C30: in export_to_hdf5 the packet list and the two truth lists have the *)
(* same length after every step, whichever branch it takes; the dataset    *)
(* mc_packets_assn then has one row per packet, the row of a data packet   *)
(* holds the track ids of its pixel and the fractions of its pixel and     *)
(* sample, and the row of every other packet holds the padding.            *)
(***************************************************************************)
C30_TruthListsAligned ==
    /\ Len(packets_mc) = Len(packets)
    /\ Len(packets_frac) = Len(packets)
    /\ ex_pc # "raised"
    /\ \A i \in 1..Len(packets) :
          IF packets[i].kind = "data"
          THEN /\ packets_mc[i] = TrackRow(packets[i].pixel)
               /\ packets_frac[i] = FractionRow(packets[i].pixel, packets[i].sample)
          ELSE /\ packets_mc[i] = NoTracks
               /\ packets_frac[i] = NoFraction
    /\ ex_pc = "done" =>
          /\ Len(packets_mc_ds) = Len(packets)
          /\ \A i \in 1..Len(packets) :
                /\ packets_mc_ds[i].track_ids = packets_mc[i]
                /\ packets_mc_ds[i].fraction = packets_frac[i]

\* the file is written after a rollover, trigger packets, a pixel skipped by
\* a failed look-up, and two data packets of the other pixel
C30_Witness ==
    /\ ex_pc = "done"
    /\ \E i \in 1..Len(packets) : i > 1 /\ packets[i].kind = "timestamp"
    /\ \E i \in 1..Len(packets) : packets[i].kind = "trigger"
    /\ \E i \in 1..Len(packets) :
          /\ packets[i].kind = "data" /\ packets[i].sample = 1
          /\ packets_mc_ds[i].fraction = FractionRow(packets[i].pixel, 1)
    /\ \E ipx \in ExportPixels :
          /\ export_in.lookup[ipx] # "connected"
          /\ export_in.adc_list[ipx][1] > digitize(0)

=============================================================================
